---- MODULE Spec2Model ----
(***************************************************************************)
(* Consensus validation core of classzz: transaction-input checks, the     *)
(* entangle coinbase, block subsidy and pool accounting, the connect-block *)
(* pipeline and the entangle verifier (blockchain/validate.go and          *)
(* cross/verifyEntangle.go).                                               *)
(*                                                                         *)
(* Amounts are scaled down (SatoshiPerBitcoin, MaxSatoshi) so that the     *)
(* int64 arithmetic of the source stays inside 32-bit integers; every       *)
(* formula of the source is kept as written.                               *)
(***************************************************************************)
EXTENDS Integers, Sequences, FiniteSets, TLC

VARIABLES
    op,        \* the entry point this run exercises
    pc,        \* "call" before the entry point runs, "done" after it returned
    height,    \* node.height / txHeight of the candidate block
    block,     \* block.Transactions(): sequence of transactions, coinbase first
    preBlock,  \* the previous block (its transactions) as blockByHashAndHeight loads it
    subsidy,   \* amountSubsidy handed to checkBlockSubsidy
    view,      \* UtxoViewpoint: OutPoint -> UtxoEntry
    stxos,     \* spent-output journal (*[]SpentTxOut)
    view0,     \* the view as it was handed to the call
    stxos0,    \* the journal as it was handed to the call
    env,       \* results of collaborators outside the validator (txscript, cache, RPC)
    ret        \* what the entry point returned

vars == <<op, pc, height, block, preBlock, subsidy, view, stxos, view0, stxos0, env, ret>>

----------------------------------------------------------------------------
(* Chain parameters and constants *)

\* chainParams.EntangleHeight
EntangleHeight == 3
\* chainParams.CoinbaseMaturity
CoinbaseMaturity == 2
\* czzutil.SatoshiPerBitcoin, scaled
SatoshiPerBitcoin == 1
\* baseSubsidy = 1000 * czzutil.SatoshiPerBitcoin
baseSubsidy == 1000 * SatoshiPerBitcoin
\* czzutil.MaxSatoshi, scaled
MaxSatoshi == 100000
\* txscript opcodes used by the coinbase height encoding
OP_0 == 0
OP_1 == 81
OP_16 == 96
\* cross.ExpandedTxEntangle_Doge / _Ltc
ExpandedTxEntangle_Doge == 240
ExpandedTxEntangle_Ltc == 241
\* math.MaxUint32 index of the null outpoint is modelled by outpoint 0
NullOutPoint == 0

(* Bounds of the model *)
MaxOutPoint == 2

OutPoints == 1..MaxOutPoint
\* The outpoints of the pool-1 and pool-2 outputs of the previous coinbase
PoolOutPoint(i) == MaxOutPoint + 1 + i

----------------------------------------------------------------------------
(* Data *)

\* UtxoEntry, and the nil entry LookupEntry returns for an unknown outpoint
NoEntry == [exists |-> FALSE, amount |-> 0, blockHeight |-> 0,
            isCoinBase |-> FALSE, isPool |-> FALSE, spent |-> FALSE,
            isP2SH |-> FALSE]

Entry(a, h, cb, pool, sp) ==
    [exists |-> TRUE, amount |-> a, blockHeight |-> h,
     isCoinBase |-> cb, isPool |-> pool, spent |-> sp, isP2SH |-> FALSE]

NoInfo == [ExTxType |-> 0, Index |-> 0, Height |-> 0, Amount |-> 0, ExtTxHash |-> "none"]

\* cross.EntangleTxInfo as carried by an entangle output script
EntangleTxInfo(t, i, h, a, x) ==
    [ExTxType |-> t, Index |-> i, Height |-> h, Amount |-> a, ExtTxHash |-> x]

\* cross.KeepedAmount: the reserve kept per foreign chain; parsed |-> FALSE
\* stands for a pk script KeepedAmount.Parse rejects
NoKeep == [parsed |-> FALSE, doge |-> 0, ltc |-> 0]
KeepedAmount(d, l) == [parsed |-> TRUE, doge |-> d, ltc |-> l]

\* wire.TxOut: the value, and what the pk script carries
TxOutOf(v) == [Value |-> v, Info |-> NoInfo, Keep |-> NoKeep]
EntangleOut(v, info) == [Value |-> v, Info |-> info, Keep |-> NoKeep]
KeepOut(v, keep) == [Value |-> v, Info |-> NoInfo, Keep |-> keep]
\* wire.TxIn; PreciseSigOps is what txscript.GetPreciseSigOpCount reports for
\* the signature script against a pay-to-script-hash pk script
TxInOf(o, script) ==
    [PreviousOutPoint |-> o, SignatureScript |-> script, PreciseSigOps |-> 0]
\* wire.MsgTx; SigOps is what txscript.GetSigOpCount sums to over its scripts
TxOf(ins, outs) == [TxIn |-> ins, TxOut |-> outs, SigOps |-> 0]

Nil == "nil"

\* UtxoViewpoint.LookupEntry
LookupEntry(v, o) == IF o \in DOMAIN v THEN v[o] ELSE NoEntry

RECURSIVE SumValues(_)
SumValues(outs) ==
    IF outs = <<>> THEN 0 ELSE outs[1].Value + SumValues(Tail(outs))

----------------------------------------------------------------------------
(* Coinbase detection *)

\* binary.LittleEndian.Uint64 of the height bytes, converted to int32: the
\* low four bytes, the top bit of the fourth being the sign.
LittleEndianInt32(bytes) ==
    LET B(i) == IF i <= Len(bytes) THEN bytes[i] ELSE 0
        low31 == B(1) + 256 * B(2) + 65536 * B(3) + 16777216 * (B(4) % 128)
    IN  IF B(4) >= 128 THEN low31 + (-2147483647 - 1) ELSE low31

ExtractCoinbaseHeight(t) ==
    IF Len(t.TxIn) = 0 THEN [height |-> 0, err |-> "panic"]
    ELSE
    LET sigScript == t.TxIn[1].SignatureScript IN
    IF Len(sigScript) < 1 THEN [height |-> 0, err |-> "ErrMissingCoinbaseHeight"]
    ELSE
    LET opcode == sigScript[1] IN
    IF opcode = OP_0 THEN [height |-> 0, err |-> Nil]
    ELSE IF opcode >= OP_1 /\ opcode <= OP_16
         THEN [height |-> opcode - (OP_1 - 1), err |-> Nil]
    ELSE
    LET serializedLen == opcode IN
    IF Len(sigScript) - 1 < serializedLen
    THEN [height |-> 0, err |-> "ErrMissingCoinbaseHeight"]
    ELSE [height |-> LittleEndianInt32(SubSeq(sigScript, 2,
                        IF serializedLen < 8 THEN serializedLen + 1 ELSE 9)),
          err |-> Nil]

isCoinBaseInParam(t) ==
    LET h == ExtractCoinbaseHeight(t) IN
    IF h.err # Nil THEN FALSE
    ELSE IF h.height >= EntangleHeight /\ Len(t.TxIn) # 3 THEN FALSE
    ELSE IF h.height < EntangleHeight /\ Len(t.TxIn) # 1 THEN FALSE
    ELSE t.TxIn[1].PreviousOutPoint = NullOutPoint

----------------------------------------------------------------------------
(* checkMergeTxInCoinbase and CheckTransactionInputs *)

\* matchPoolFromUtxo: the utxo is not consulted; the outcome is what
\* txscript.ExtractPkScriptAddrs makes of the pool constant of that index.
matchPoolFromUtxo(utxo, index, extract) ==
    LET e == extract[index] IN
    IF e.class # "PubKeyHashTy" \/ e.reqSigs # 1 \/ e.nAddrs # 1 \/ ~e.addrEq
    THEN "pool not match"
    ELSE Nil

\* The loop over the coinbase inputs, from 0-based index i on.
RECURSIVE MergeLoop(_, _, _, _)
MergeLoop(t, i, utxoView, extract) ==
    IF i >= Len(t.TxIn) THEN [ok |-> TRUE, err |-> Nil]
    ELSE IF i = 0 THEN MergeLoop(t, i + 1, utxoView, extract)
    ELSE
    LET utxo == LookupEntry(utxoView, t.TxIn[i + 1].PreviousOutPoint) IN
    IF ~utxo.exists THEN [ok |-> TRUE, err |-> "ErrMissingTxOut"]
    ELSE IF utxo.spent THEN [ok |-> TRUE, err |-> "ErrSpentTxOut"]
    ELSE IF utxo.blockHeight < EntangleHeight - 1
         THEN [ok |-> TRUE, err |-> "ErrBadTxOutValue"]
    ELSE IF i <= 2 /\ matchPoolFromUtxo(utxo, i, extract) # Nil
         THEN [ok |-> TRUE, err |-> Nil]
    ELSE MergeLoop(t, i + 1, utxoView, extract)

\* Only the branch at or below EntangleHeight answers for a coinbase
checkMergeTxInCoinbase_BelowOnly(t, txHeight, utxoView, extract) ==
    IF EntangleHeight >= txHeight /\ isCoinBaseInParam(t)
    THEN [ok |-> TRUE, err |-> Nil]
    ELSE [ok |-> FALSE, err |-> Nil]

checkMergeTxInCoinbase(t, txHeight, utxoView, extract) ==
    IF EntangleHeight >= txHeight
    THEN IF isCoinBaseInParam(t) THEN [ok |-> TRUE, err |-> Nil]
         ELSE [ok |-> FALSE, err |-> Nil]
    ELSE IF isCoinBaseInParam(t) THEN MergeLoop(t, 0, utxoView, extract)
         ELSE [ok |-> FALSE, err |-> Nil]

\* The maturity test applied to pool outputs as well
ImmatureSpend_PoolToo(utxo, txHeight) ==
    utxo.isCoinBase /\ txHeight - utxo.blockHeight < CoinbaseMaturity

\* A coinbase output that is not a pool output, spent before
\* CoinbaseMaturity blocks have passed
ImmatureSpend(utxo, txHeight) ==
    utxo.isCoinBase /\ ~utxo.isPool
    /\ txHeight - utxo.blockHeight < CoinbaseMaturity

\* The input loop of CheckTransactionInputs from 0-based index i on, with the
\* running totalSatoshiIn.
RECURSIVE InputLoop(_, _, _, _, _)
InputLoop(t, i, txHeight, utxoView, totalSatoshiIn) ==
    IF i >= Len(t.TxIn) THEN [total |-> totalSatoshiIn, err |-> Nil]
    ELSE
    LET utxo == LookupEntry(utxoView, t.TxIn[i + 1].PreviousOutPoint) IN
    IF ~utxo.exists THEN [total |-> 0, err |-> "ErrMissingTxOut"]
    ELSE IF utxo.spent THEN [total |-> 0, err |-> "ErrSpentTxOut"]
    ELSE IF ImmatureSpend(utxo, txHeight)
         THEN [total |-> 0, err |-> "ErrImmatureSpend"]
    ELSE IF utxo.amount < 0 THEN [total |-> 0, err |-> "ErrBadTxOutValue"]
    ELSE IF utxo.amount > MaxSatoshi THEN [total |-> 0, err |-> "ErrBadTxOutValue"]
    ELSE IF totalSatoshiIn + utxo.amount < totalSatoshiIn
            \/ totalSatoshiIn + utxo.amount > MaxSatoshi
         THEN [total |-> 0, err |-> "ErrBadTxOutValue"]
    ELSE InputLoop(t, i + 1, txHeight, utxoView, totalSatoshiIn + utxo.amount)

CheckTransactionInputs(t, txHeight, utxoView, extract) ==
    LET m == checkMergeTxInCoinbase(t, txHeight, utxoView, extract) IN
    IF m.ok THEN [fee |-> 0, err |-> m.err]
    ELSE
    LET ins == InputLoop(t, 0, txHeight, utxoView, 0)
        totalSatoshiOut == SumValues(t.TxOut)
    IN  IF ins.err # Nil THEN [fee |-> 0, err |-> ins.err]
        ELSE IF ins.total < totalSatoshiOut THEN [fee |-> 0, err |-> "ErrSpendTooHigh"]
        ELSE [fee |-> ins.total - totalSatoshiOut, err |-> Nil]

----------------------------------------------------------------------------
(* Entangle detection and minting (package cross) *)

\* cross.IsEntangleTx: the output indexes (1-based here) whose script
\* carries an entangle info; the empty set stands for the nil map
IsEntangleTx(t) == {i \in 1..Len(t.TxOut) : t.TxOut[i].Info # NoInfo}

\* The items of a Go map in the order one range over it visits them: Go
\* leaves the order open, ascending and descending key order stand for it.
RECURSIVE Ascending(_)
Ascending(S) ==
    IF S = {} THEN <<>>
    ELSE LET m == CHOOSE x \in S : \A y \in S : x <= y
         IN  <<m>> \o Ascending(S \ {m})

RECURSIVE Reverse(_)
Reverse(s) == IF s = <<>> THEN <<>> ELSE Reverse(Tail(s)) \o <<Head(s)>>

MapRange(S, order) == IF order = "asc" THEN Ascending(S) ELSE Reverse(Ascending(S))

\* Minting curves: the rate per unit rises with the reserve already kept
DogeRate == 2
LtcRate == 1
RateStep == 20
toDoge(reserve, amount) == amount \div (DogeRate + reserve \div RateStep)
toLtc(reserve, amount) == amount \div (LtcRate + reserve \div RateStep)

\* cross.PreCalcEntangleAmount: the credit for one item against the kept
\* reserve, and the reserve with the deposit added
PreCalcEntangleAmount(item, keep) ==
    IF item.EType = ExpandedTxEntangle_Doge
    THEN [Value |-> toDoge(keep.doge, item.Value),
          keep |-> [keep EXCEPT !.doge = @ + item.Value]]
    ELSE IF item.EType = ExpandedTxEntangle_Ltc
    THEN [Value |-> toLtc(keep.ltc, item.Value),
          keep |-> [keep EXCEPT !.ltc = @ + item.Value]]
    ELSE [Value |-> item.Value, keep |-> keep]

----------------------------------------------------------------------------
(* Subsidy and pool accounting *)

getKeepedAmountFormPreBlock(pre) ==
    IF Len(pre) = 0 THEN [keep |-> KeepedAmount(0, 0), err |-> Nil]
    ELSE IF Len(pre[1].TxOut) >= 4
    THEN IF pre[1].TxOut[4].Keep.parsed
         THEN [keep |-> pre[1].TxOut[4].Keep, err |-> Nil]
         ELSE [keep |-> KeepedAmount(0, 0), err |-> "keep parse error"]
    ELSE [keep |-> KeepedAmount(0, 0), err |-> Nil]

\* Reads TxOut[1] and TxOut[2] of the previous coinbase without a length
\* check: fewer than three outputs is an index out of range.
getPoolAmountFromPreBlock(pre) ==
    IF Len(pre) = 0 THEN [lastpool1Amount |-> 0, lastpool2Amount |-> 0, err |-> "no tx"]
    ELSE IF Len(pre[1].TxOut) < 3
    THEN [lastpool1Amount |-> 0, lastpool2Amount |-> 0, err |-> "panic"]
    ELSE [lastpool1Amount |-> pre[1].TxOut[2].Value,
          lastpool2Amount |-> pre[1].TxOut[3].Value, err |-> Nil]

\* handleSummayEntangle over the infos of one transaction, visited in the
\* order idx: acc is [EntangleAmount, keep]
RECURSIVE handleSummayEntangle(_, _, _)
handleSummayEntangle(acc, t, idx) ==
    IF idx = <<>> THEN acc
    ELSE LET v == t.TxOut[Head(idx)].Info
             r == PreCalcEntangleAmount([EType |-> v.ExTxType, Value |-> v.Amount],
                                        acc.keep)
         IN  handleSummayEntangle(
                 [EntangleAmount |-> acc.EntangleAmount + r.Value, keep |-> r.keep],
                 t, Tail(idx))

\* The entangle part of the transaction loop of summayOfTxsAndCheck, over
\* the non-coinbase transactions from index i (1-based) on
RECURSIVE SummayEntangle(_, _, _, _)
SummayEntangle(acc, txs, i, order) ==
    IF i > Len(txs) THEN acc
    ELSE SummayEntangle(
             handleSummayEntangle(acc, txs[i], MapRange(IsEntangleTx(txs[i]), order)),
             txs, i + 1, order)

RECURSIVE SumFrom(_, _)
SumFrom(outs, i) ==
    IF i > Len(outs) THEN 0 ELSE outs[i].Value + SumFrom(outs, i + 1)

RECURSIVE SumAllOut(_, _)
SumAllOut(txs, i) ==
    IF i > Len(txs) THEN 0 ELSE SumValues(txs[i].TxOut) + SumAllOut(txs, i + 1)

RECURSIVE SumInputs(_, _, _)
SumInputs(t, j, utxoView) ==
    IF j > Len(t.TxIn) THEN 0
    ELSE LookupEntry(utxoView, t.TxIn[j].PreviousOutPoint).amount
         + SumInputs(t, j + 1, utxoView)

RECURSIVE SumAllIn(_, _, _)
SumAllIn(txs, i, utxoView) ==
    IF i > Len(txs) THEN 0
    ELSE SumInputs(txs[i], 1, utxoView) + SumAllIn(txs, i + 1, utxoView)

NoSummay == [err |-> Nil, TotalIn |-> 0, TotalOut |-> 0, EntangleAmount |-> 0,
             lastpool1Amount |-> 0, lastpool2Amount |-> 0,
             pool1Amount |-> 0, pool2Amount |-> 0]

EntangleAmountMismatch_OnlyOver(amount1, entangleAmount) == amount1 > entangleAmount

\* "check entangle amount": the sum of the coinbase outputs above index 3
\* against the summed entangle amount
EntangleAmountMismatch(amount1, entangleAmount) == amount1 # entangleAmount

summayOfTxsAndCheck(pre, blk, utxoView, sub, pool1Amount, pool2Amount, order) ==
    LET keepInfo == getKeepedAmountFormPreBlock(pre)
        last == getPoolAmountFromPreBlock(pre)
    IN
    IF keepInfo.err # Nil THEN [NoSummay EXCEPT !.err = keepInfo.err]
    ELSE IF last.err # Nil THEN [NoSummay EXCEPT !.err = last.err]
    ELSE
    LET cb == blk[1].TxOut
        missing == \E i \in 2..Len(blk) : \E j \in 1..Len(blk[i].TxIn) :
                      ~LookupEntry(utxoView, blk[i].TxIn[j].PreviousOutPoint).exists
        ent == SummayEntangle([EntangleAmount |-> 0, keep |-> keepInfo.keep],
                              blk, 2, order)
        \* coinbase outputs of 0-based index above 3
        amount1 == SumFrom(cb, 5)
        totalIn == last.lastpool1Amount + last.lastpool2Amount + pool1Amount
                   + pool2Amount + sub + SumAllIn(blk, 2, utxoView)
        totalOut == SumAllOut(blk, 1)
    IN
    IF missing THEN [NoSummay EXCEPT !.err = "ErrMissingTxOut"]
    ELSE IF EntangleAmountMismatch(amount1, ent.EntangleAmount)
    THEN [NoSummay EXCEPT !.err = "not match the entangle amount"]
    ELSE [err |-> Nil, TotalIn |-> totalIn, TotalOut |-> totalOut,
          EntangleAmount |-> ent.EntangleAmount,
          lastpool1Amount |-> last.lastpool1Amount,
          lastpool2Amount |-> last.lastpool2Amount,
          pool1Amount |-> IF Len(cb) >= 2 THEN cb[2].Value ELSE 0,
          pool2Amount |-> IF Len(cb) >= 3 THEN cb[3].Value ELSE 0]

\* The split of the subsidy: originIncome1, originIncome2, originIncome3,
\* with the catch-up of the entangle-activation block
SubsidyIncomes(amountSubsidy, txHeight) ==
    LET income1 == (amountSubsidy * 19) \div 100
        income2 == amountSubsidy \div 100
    IN  [originIncome1 |-> IF txHeight = EntangleHeight
                           THEN income1 * (EntangleHeight - 1) ELSE income1,
         originIncome2 |-> IF txHeight = EntangleHeight
                           THEN income2 * (EntangleHeight - 1) ELSE income2,
         originIncome3 |-> amountSubsidy - income1 - income2]

\* "check pool1 reward"
Pool1Wrong(summay, originIncome1) ==
    summay.pool1Amount # summay.lastpool1Amount + originIncome1 - summay.EntangleAmount

Pool2Wrong_OnlyUnder(summay, originIncome2) ==
    originIncome2 + summay.lastpool2Amount > summay.pool2Amount

\* "check pool2 reward"
Pool2Wrong(summay, originIncome2) ==
    originIncome2 + summay.lastpool2Amount # summay.pool2Amount

TotalWrong_Never(summay) == FALSE

\* the totalOut > totalIn test
TotalWrong(summay) == summay.TotalOut > summay.TotalIn

\* The guard that leaves checkBlockSubsidy at once
SubsidyNotChecked(txHeight) == txHeight <= EntangleHeight

checkBlockSubsidy(blk, pre, txHeight, utxoView, amountSubsidy, order) ==
    IF SubsidyNotChecked(txHeight) THEN Nil
    ELSE
    LET inc == SubsidyIncomes(amountSubsidy, txHeight)
        summay == summayOfTxsAndCheck(pre, blk, utxoView, inc.originIncome3,
                                      inc.originIncome1, inc.originIncome2, order)
    IN
    IF summay.err # Nil THEN summay.err
    ELSE IF Pool1Wrong(summay, inc.originIncome1)
    THEN "the pool1 address's reward was wrong"
    ELSE IF Pool2Wrong(summay, inc.originIncome2)
    THEN "the pool2 address's reward was wrong"
    ELSE IF TotalWrong(summay)
    THEN "the totalOut > totalIn"
    ELSE Nil

----------------------------------------------------------------------------
(* UtxoViewpoint operations *)

RECURSIVE InputOutPoints(_, _)
\* The non-null outpoints the inputs of the transactions from index i on
\* reference
InputOutPoints(txs, i) ==
    IF i > Len(txs) THEN {}
    ELSE ({txs[i].TxIn[j].PreviousOutPoint : j \in 1..Len(txs[i].TxIn)}
            \ {NullOutPoint})
         \cup InputOutPoints(txs, i + 1)

\* UtxoViewpoint.addInputUtxos: every referenced input the view does not
\* hold is fetched from the cache
addInputUtxos(v, cache, blk) ==
    LET need == {o \in InputOutPoints(blk, 1) : o \notin DOMAIN v /\ o \in DOMAIN cache}
    IN  [o \in DOMAIN v \cup need |-> IF o \in DOMAIN v THEN v[o] ELSE cache[o]]

\* The outpoint of output j (1-based) of the i-th transaction of the block
NewOutPoint(i, j) == 100 * i + j

\* The entries the outputs of the i-th transaction of the block create
NewEntries(t, i, h) ==
    [o \in {NewOutPoint(i, j) : j \in 1..Len(t.TxOut)} |->
        LET j == o - 100 * i
        IN  Entry(t.TxOut[j].Value, h, i = 1, i = 1 /\ j \in {2, 3}, FALSE)]

Merge(f, g) == [o \in DOMAIN f \cup DOMAIN g |-> IF o \in DOMAIN g THEN g[o] ELSE f[o]]

\* Spending the inputs of one transaction from input j on: each referenced
\* entry must be held and unspent, is marked spent and journalled.
\* (Here and below an intermediate result is bound as the one element of a
\* set, so that it is computed once.)
RECURSIVE SpendInputs(_, _, _, _)
SpendInputs(t, j, v, st) ==
    IF j > Len(t.TxIn) THEN [err |-> Nil, view |-> v, stxos |-> st]
    ELSE LET o == t.TxIn[j].PreviousOutPoint IN
         IF o = NullOutPoint THEN SpendInputs(t, j + 1, v, st)
         ELSE IF ~LookupEntry(v, o).exists
         THEN [err |-> "ErrMissingTxOut", view |-> v, stxos |-> st]
         ELSE IF v[o].spent
         THEN [err |-> "ErrSpentTxOut", view |-> v, stxos |-> st]
         ELSE CHOOSE out \in
                  { SpendInputs(t, j + 1, v2, st2) :
                      v2 \in {[v EXCEPT ![o].spent = TRUE]},
                      st2 \in {Append(st, [outpoint |-> o, entry |-> v[o]])} } : TRUE

\* UtxoViewpoint.connectTransaction for the i-th transaction of the block
connectTransaction(v, t, i, h, st) ==
    CHOOSE out \in
        { IF r.err # Nil THEN r
          ELSE [err |-> Nil, view |-> Merge(r.view, NewEntries(t, i, h)),
                stxos |-> r.stxos] :
            r \in {SpendInputs(t, 1, v, st)} } : TRUE

RECURSIVE ConnectFrom(_, _, _, _, _)
ConnectFrom(v, blk, i, h, st) ==
    IF i > Len(blk) THEN [err |-> Nil, view |-> v, stxos |-> st]
    ELSE CHOOSE out \in
             { IF r.err # Nil THEN r ELSE ConnectFrom(r.view, blk, i + 1, h, r.stxos) :
                 r \in {connectTransaction(v, blk[i], i, h, st)} } : TRUE

\* UtxoViewpoint.connectTransactions: all or nothing
connectTransactions(v, blk, h, st) ==
    CHOOSE out \in
        { IF r.err # Nil THEN [err |-> r.err, view |-> v, stxos |-> st] ELSE r :
            r \in {ConnectFrom(v, blk, 1, h, st)} } : TRUE

----------------------------------------------------------------------------
(* Signature operation counting *)

MaxBlockSigOpsPerMB == 20000

\* MaxBlockSigOps for a block of at most one megabyte
MaxBlockSigOps == 1 * MaxBlockSigOpsPerMB

CountSigOps(t) == t.SigOps

RECURSIVE P2SHLoop(_, _, _, _)
P2SHLoop(t, j, utxoView, totalSigOps) ==
    IF j > Len(t.TxIn) THEN [n |-> totalSigOps, err |-> Nil]
    ELSE LET utxo == LookupEntry(utxoView, t.TxIn[j].PreviousOutPoint) IN
         IF ~utxo.exists THEN [n |-> 0, err |-> "ErrMissingTxOut"]
         ELSE IF utxo.spent THEN [n |-> 0, err |-> "ErrSpentTxOut"]
         ELSE IF ~utxo.isP2SH THEN P2SHLoop(t, j + 1, utxoView, totalSigOps)
         ELSE IF totalSigOps + t.TxIn[j].PreciseSigOps < totalSigOps
         THEN [n |-> 0, err |-> "ErrTooManySigOps"]
         ELSE P2SHLoop(t, j + 1, utxoView, totalSigOps + t.TxIn[j].PreciseSigOps)

CountP2SHSigOps(t, isCoinBaseTx, utxoView) ==
    IF isCoinBaseTx THEN [n |-> 0, err |-> Nil] ELSE P2SHLoop(t, 1, utxoView, 0)

\* GetSigOps with the ScriptBip16 flag set, as checkConnectBlock calls it
GetSigOps(t, isCoinBaseTx, utxoView) ==
    LET numSigOps == CountSigOps(t)
        p2sh == CountP2SHSigOps(t, isCoinBaseTx, utxoView)
    IN  IF p2sh.err # Nil THEN [n |-> 0, err |-> Nil]
        ELSE [n |-> numSigOps + p2sh.n, err |-> Nil]

----------------------------------------------------------------------------
(* Block subsidy *)

\* chainParams.SubsidyReductionInterval
SubsidyReductionInterval == 2

\* The base subsidy shifted right by the halving count
ReducedSubsidy_Shifted(halvings) ==
    IF halvings > 20 THEN 0 ELSE baseSubsidy \div (2 ^ halvings)

\* baseSubsidy / halvings
ReducedSubsidy(halvings) == baseSubsidy \div halvings

\* CalcBlockSubsidy for a chain whose SubsidyReductionInterval is interval;
\* heights and intervals are not negative
CalcBlockSubsidyFor(h, interval) ==
    IF interval = 0 THEN baseSubsidy
    ELSE LET halvings == h \div interval IN
         IF halvings = 0 THEN baseSubsidy
         ELSE LET sub == ReducedSubsidy(halvings)
              IN  IF sub = 0 THEN 1 ELSE sub

CalcBlockSubsidy(h) == CalcBlockSubsidyFor(h, SubsidyReductionInterval)

----------------------------------------------------------------------------
(* CalcBlockSubsidy applied to a height under a reduction interval *)

MaxSubsidyHeight == 1100
MaxReductionInterval == 4

CalcInit ==
    /\ op = "calc"
    /\ pc = "call"
    /\ height \in 0..MaxSubsidyHeight
    /\ env \in [interval : 0..MaxReductionInterval]
    /\ subsidy = 0
    /\ block = <<>>
    /\ preBlock = <<>>
    /\ view = <<>>
    /\ view0 = view
    /\ stxos = <<>>
    /\ stxos0 = <<>>
    /\ ret = 0

CallCalcBlockSubsidy ==
    /\ op = "calc"
    /\ pc = "call"
    /\ pc' = "done"
    /\ ret' = CalcBlockSubsidyFor(height, env.interval)
    /\ subsidy' = ret'
    /\ UNCHANGED <<op, height, block, preBlock, view, stxos, view0, stxos0, env>>

CalcNext == CallCalcBlockSubsidy

SpecCalc == CalcInit /\ [][CalcNext]_vars

CalcDone == op = "calc" /\ pc = "done"

\* height div interval, 0 when there is no interval
HalvingCount == IF env.interval = 0 THEN 0 ELSE height \div env.interval

C13_MinimumReached ==
    /\ CalcDone
    /\ HalvingCount > baseSubsidy
    /\ ret = 1

----------------------------------------------------------------------------
(* checkConnectBlock *)

\* The sigop loop: the running total against the block maximum
RECURSIVE SigOpsStage(_, _, _, _)
SigOpsStage(blk, i, utxoView, totalSigOpCost) ==
    IF i > Len(blk) THEN Nil
    ELSE CHOOSE out \in
             { IF c.err # Nil THEN c.err
               ELSE IF totalSigOpCost + c.n < totalSigOpCost
                       \/ totalSigOpCost + c.n > MaxBlockSigOps
               THEN "ErrTooManySigOps"
               ELSE SigOpsStage(blk, i + 1, utxoView, totalSigOpCost + c.n) :
                 c \in {GetSigOps(blk[i], i = 1, utxoView)} } : TRUE

\* The input loop: CheckTransactionInputs on every transaction, the fees
\* summed
RECURSIVE InputsStage(_, _, _, _, _, _)
InputsStage(blk, i, h, v, extract, totalFees) ==
    IF i > Len(blk) THEN [err |-> Nil, totalFees |-> totalFees]
    ELSE CHOOSE out \in
             { IF r.err # Nil THEN [err |-> r.err, totalFees |-> 0]
               ELSE IF totalFees + r.fee < totalFees
               THEN [err |-> "ErrBadFees", totalFees |-> 0]
               ELSE InputsStage(blk, i + 1, h, v, extract, totalFees + r.fee) :
                 r \in {CheckTransactionInputs(blk[i], h, v, extract)} } : TRUE

RECURSIVE FeeLoop(_, _, _, _)
FeeLoop(t, j, utxoView, totalSatoshiIn) ==
    IF j > Len(t.TxIn)
    THEN IF totalSatoshiIn < SumValues(t.TxOut)
         THEN [fee |-> 0, err |-> "ErrSpendTooHigh"]
         ELSE [fee |-> totalSatoshiIn - SumValues(t.TxOut), err |-> Nil]
    ELSE LET utxo == LookupEntry(utxoView, t.TxIn[j].PreviousOutPoint) IN
         IF ~utxo.exists THEN [fee |-> 0, err |-> "ErrMissingTxOut"]
         ELSE IF utxo.amount < 0 THEN [fee |-> 0, err |-> "ErrBadTxOutValue"]
         ELSE FeeLoop(t, j + 1, utxoView, totalSatoshiIn + utxo.amount)

getFee(t, utxoView) ==
    IF isCoinBaseInParam(t) THEN [fee |-> 0, err |-> Nil]
    ELSE FeeLoop(t, 1, utxoView, 0)

RECURSIVE getEtsInfoInBlock(_, _, _)
\* The error of the first transaction whose fee cannot be computed
getEtsInfoInBlock(blk, i, utxoView) ==
    IF i > Len(blk) THEN Nil
    ELSE LET r == getFee(blk[i], utxoView)
         IN  IF r.err # Nil THEN r.err ELSE getEtsInfoInBlock(blk, i + 1, utxoView)

\* checkTxSequence; sequenceErr is the verdict of cross.VerifyTxsSequence
checkTxSequence(blk, h, utxoView, sequenceErr) ==
    IF EntangleHeight >= h THEN Nil
    ELSE LET err == getEtsInfoInBlock(blk, 1, utxoView)
         IN  IF err # Nil THEN err ELSE sequenceErr

\* The value the coinbase check looks at: the first output alone
CoinbaseSatoshiOut(blk) ==
    IF Len(blk[1].TxOut) = 0 THEN 0 ELSE blk[1].TxOut[1].Value

\* The comparison with the boundary rejected too
CoinbaseOverpays_AtBoundary(totalSatoshiOut, expectedSatoshiOut) ==
    totalSatoshiOut >= expectedSatoshiOut

\* totalSatoshiOut > expectedSatoshiOut
CoinbaseOverpays(totalSatoshiOut, expectedSatoshiOut) ==
    totalSatoshiOut > expectedSatoshiOut

Returned(e, at, v, st) == [err |-> e, step |-> at, view |-> v, stxos |-> st]

\* The steps of checkConnectBlock after connectTransactions succeeded
AfterConnect(h, blk, pre, v, st, totalFees, e) ==
    LET amountSubsidy == CalcBlockSubsidy(h)
        sub == IF h - 1 > 0 /\ ~e.preBlockErr
               THEN checkBlockSubsidy(blk, pre, h, v, amountSubsidy, e.order)
               ELSE Nil
    IN
    IF CoinbaseOverpays(CoinbaseSatoshiOut(blk), amountSubsidy + totalFees)
    THEN Returned("ErrBadCoinbaseValue", "coinbase", v, st)
    ELSE IF h - 1 > 0 /\ e.preBlockErr
    THEN Returned("ErrPrevBlockNotBest", "preblock", v, st)
    ELSE IF sub # Nil THEN Returned(sub, "subsidy", v, st)
    ELSE IF e.csv = "state error" THEN Returned("deployment state", "csv", v, st)
    ELSE IF e.csv = "lock error" THEN Returned("sequence lock", "csv", v, st)
    ELSE IF e.csv = "lock not met" THEN Returned("ErrUnfinalizedTx", "csv", v, st)
    ELSE IF e.scripts = "fail" THEN Returned("script error", "scripts", v, st)
    ELSE Returned(Nil, "end", v, st)

\* A failed connectTransactions handed on as its error
ConnectFailed_Reported(con) == Returned(con.err, "connect", con.view, con.stxos)

\* What checkConnectBlock returns when connectTransactions failed: nil
ConnectFailed(con) == Returned(Nil, "connect", con.view, con.stxos)

\* The steps from the input loop to connectTransactions, on the view v1
\* that addInputUtxos filled
AfterLoad(h, blk, pre, v1, st, e) ==
    LET sig == SigOpsStage(blk, 1, v1, 0) IN
    IF sig # Nil THEN Returned(sig, "sigops", v1, st)
    ELSE
    CHOOSE out \in
        { IF ins.err # Nil THEN Returned(ins.err, "inputs", v1, st)
          ELSE LET seq == checkTxSequence(blk, h, v1, e.sequenceErr) IN
               IF seq # Nil THEN Returned(seq, "sequence", v1, st)
               ELSE CHOOSE out2 \in
                        { IF con.err # Nil
                          THEN ConnectFailed(con)
                          ELSE AfterConnect(h, blk, pre, con.view, con.stxos,
                                            ins.totalFees, e) :
                            con \in {connectTransactions(v1, blk, h, st)} } : TRUE :
            ins \in {InputsStage(blk, 1, h, v1, e.extract, 0)} } : TRUE

checkConnectBlock(h, blk, pre, v, st, cache, e) ==
    IF e.isGenesis THEN Returned("ErrMissingTxOut", "genesis", v, st)
    ELSE IF e.cacheErr THEN Returned("cache error", "load", v, st)
    ELSE CHOOSE out \in
             { AfterLoad(h, blk, pre, v1, st, e) :
                 v1 \in {addInputUtxos(v, cache, blk)} } : TRUE

----------------------------------------------------------------------------
(* Inputs of the runs *)

\* Bound on the non-coinbase transactions of a block
MaxTxs == 2

MapOrders == {"asc", "desc"}

\* What txscript.ExtractPkScriptAddrs can report for a pool constant
ExtractResults ==
    { [class |-> "PubKeyHashTy", reqSigs |-> 1, nAddrs |-> 1, addrEq |-> TRUE],
      [class |-> "NonStandardTy", reqSigs |-> 0, nAddrs |-> 0, addrEq |-> FALSE] }

NoExtract == [i \in 1..2 |->
                 [class |-> "NonStandardTy", reqSigs |-> 0, nAddrs |-> 0, addrEq |-> FALSE]]

\* The signature script that encodes height h as a small integer
HeightScript(h) == IF h = 0 THEN <<OP_0, 0>> ELSE <<OP_1 - 1 + h, 0>>

SeqsUpTo(S, n) == UNION {[1..k -> S] : k \in 0..n}

Max0(x) == IF x < 0 THEN 0 ELSE x

\* Non-coinbase transactions: a plain spend paying a fee of 1, a spend of an
\* outpoint the view does not hold, and entangle-bearing transactions
PlainTx(o) == TxOf(<<TxInOf(o, <<>>)>>, <<TxOutOf(5)>>)
EntangleTx(o, infos) ==
    TxOf(<<TxInOf(o, <<>>)>>,
         [i \in 1..Len(infos) |-> EntangleOut(IF i = 1 THEN 6 ELSE 0, infos[i])])

DogeInfo(a, h, x) == EntangleTxInfo(ExpandedTxEntangle_Doge, 0, h, a, x)
LtcInfo(a, h, x) == EntangleTxInfo(ExpandedTxEntangle_Ltc, 0, h, a, x)

SubsidyTxKinds ==
    { PlainTx(1),
      PlainTx(MaxOutPoint + 1),
      EntangleTx(2, <<LtcInfo(20, 1, "b")>>),
      EntangleTx(2, <<DogeInfo(20, 1, "a"), DogeInfo(40, 2, "b")>>) }

\* The previous block: its coinbase with the carried pool balances and the
\* KeepedAmount script, or with too few outputs, or with an out[3] that does
\* not parse
PreCoinbase(outs) == <<TxOf(<<TxInOf(NullOutPoint, HeightScript(1))>>, outs)>>

PreBlocks ==
    { PreCoinbase(<<TxOutOf(780), TxOutOf(60), TxOutOf(5), KeepOut(0, KeepedAmount(0, 0))>>),
      PreCoinbase(<<TxOutOf(780), TxOutOf(0), TxOutOf(0), KeepOut(0, KeepedAmount(40, 0))>>),
      PreCoinbase(<<TxOutOf(780), TxOutOf(60), TxOutOf(5)>>),
      PreCoinbase(<<TxOutOf(780), TxOutOf(60)>>),
      PreCoinbase(<<TxOutOf(780), TxOutOf(60), TxOutOf(5), TxOutOf(0)>>) }

\* Candidate coinbases: every output drawn at and next to the value the
\* accounting expects, with one to six outputs
CoinbaseDraws(h, sub, pre, txs, order, D) ==
    LET a1 == (sub * 19) \div 100
        a2 == sub \div 100
        a3 == sub - a1 - a2
        outs == pre[1].TxOut
        p1 == IF Len(outs) >= 2 THEN outs[2].Value ELSE 0
        p2 == IF Len(outs) >= 3 THEN outs[3].Value ELSE 0
        k0 == IF Len(outs) >= 4 /\ outs[4].Keep.parsed
              THEN outs[4].Keep ELSE KeepedAmount(0, 0)
        ent == SummayEntangle([EntangleAmount |-> 0, keep |-> k0], txs, 1, order)
        ea == ent.EntangleAmount
    IN  { TxOf(<<TxInOf(NullOutPoint, HeightScript(h)),
                  TxInOf(PoolOutPoint(1), <<>>), TxInOf(PoolOutPoint(2), <<>>)>>,
               SubSeq(<<TxOutOf(a3 + d0), TxOutOf(Max0(p1 + a1 - ea + d1)),
                        TxOutOf(p2 + a2 + d2), KeepOut(0, ent.keep),
                        TxOutOf(Max0(ea + d4)), TxOutOf(d5)>>, 1, n)) :
            d0 \in D.d0 \cup (IF D.over THEN {a1 + a2 + 1} ELSE {}),
            d1 \in D.d1, d2 \in D.d2, d4 \in D.d4, d5 \in D.d5, n \in D.n }

\* The draws of the runs of checkBlockSubsidy
SubsidyDraws == [d0 |-> {0, 1}, over |-> TRUE, d1 |-> {-1, 0}, d2 |-> {0, 1},
                 d4 |-> {-1, 0, 1}, d5 |-> {0, 1}, n |-> 1..6]

\* The view after connectTransactions: every outpoint of the model is held
\* (and spent by the block)
SubsidyView == [o \in OutPoints |-> Entry(6, 1, FALSE, FALSE, TRUE)]

SubsidyHeights == EntangleHeight..(EntangleHeight + 1)
SubsidySet == {baseSubsidy, baseSubsidy \div 4}

----------------------------------------------------------------------------
(* checkBlockSubsidy applied to a block *)

SubsidyInit ==
    /\ op = "subsidy"
    /\ pc = "call"
    /\ height \in SubsidyHeights
    /\ subsidy \in SubsidySet
    /\ preBlock \in PreBlocks
    /\ env \in [order : MapOrders, extract : {NoExtract}]
    /\ \E txs \in SeqsUpTo(SubsidyTxKinds, MaxTxs) :
         \* the order of a range over a map shows only on a map of two items
         /\ env.order = "desc" =>
                \E i \in 1..Len(txs) : Cardinality(IsEntangleTx(txs[i])) > 1
         /\ \E cb \in CoinbaseDraws(height, subsidy, preBlock, txs, env.order,
                                      SubsidyDraws) :
                block = <<cb>> \o txs
    /\ view = SubsidyView
    /\ view0 = view
    /\ stxos = <<>>
    /\ stxos0 = <<>>
    /\ ret = [err |-> Nil]

CallCheckBlockSubsidy ==
    /\ op = "subsidy"
    /\ pc = "call"
    /\ pc' = "done"
    /\ ret' = [err |-> checkBlockSubsidy(block, preBlock, height, view, subsidy, env.order)]
    /\ UNCHANGED <<op, height, block, preBlock, subsidy, view, stxos, view0, stxos0, env>>

SubsidyNext == CallCheckBlockSubsidy

SpecSubsidy == SubsidyInit /\ [][SubsidyNext]_vars

----------------------------------------------------------------------------
(* Properties of checkBlockSubsidy *)

SubsidyDone == op = "subsidy" /\ pc = "done"
SubsidyAccepted == SubsidyDone /\ ret.err = Nil

Cb == block[1].TxOut
PrevCb == preBlock[1].TxOut
PrevKeep == IF Len(PrevCb) >= 4 /\ PrevCb[4].Keep.parsed
            THEN PrevCb[4].Keep ELSE KeepedAmount(0, 0)
\* PreCalcEntangleAmount applied, against the previous KeepedAmount, to every
\* entangle item of every non-coinbase transaction
ComputedEntangleAmount ==
    SummayEntangle([EntangleAmount |-> 0, keep |-> PrevKeep], block, 2,
                   env.order).EntangleAmount
A1 == (subsidy * 19) \div 100
A2 == subsidy \div 100

\* C2: an accepted block above EntangleHeight has out[1] = previous out[1]
\* + a1 - entangle amount and out[2] = previous out[2] + a2.
C2_PoolOutputs ==
    (SubsidyAccepted /\ height > EntangleHeight) =>
        /\ Len(Cb) >= 3
        /\ Len(PrevCb) >= 3
        /\ Cb[2].Value = PrevCb[2].Value + A1 - ComputedEntangleAmount
        /\ Cb[3].Value = PrevCb[3].Value + A2

C2_Witness ==
    SubsidyAccepted /\ height > EntangleHeight /\ ComputedEntangleAmount > 0

\* C3: an accepted block has total_out <= prev_pool1 + prev_pool2 + a1 + a2
\* + S + the utxo amounts its non-coinbase inputs reference.
C3_TotalOutBounded ==
    (SubsidyAccepted /\ height > EntangleHeight) =>
        SumAllOut(block, 1) <= PrevCb[2].Value + PrevCb[3].Value + A1 + A2
                                + subsidy + SumAllIn(block, 2, view)

C3_Witness ==
    SubsidyAccepted /\ height > EntangleHeight /\ Len(block) > 1
    /\ SumAllIn(block, 2, view) > 0

\* C4: an accepted block above EntangleHeight has coinbase outputs 4 and
\* above summing to the computed entangle amount; a mismatch is rejected.
C4_EntangleOutputs ==
    (SubsidyDone /\ height > EntangleHeight) =>
        /\ ret.err = Nil => SumFrom(Cb, 5) = ComputedEntangleAmount
        /\ (/\ Len(PrevCb) >= 3
            /\ SumFrom(Cb, 5) # ComputedEntangleAmount) => ret.err # Nil

C4_Witness ==
    SubsidyAccepted /\ height > EntangleHeight /\ Len(Cb) >= 6
    /\ Cb[6].Value > 0 /\ ComputedEntangleAmount > Cb[6].Value

\* C5: at height = EntangleHeight the pool equalities are enforced with a1
\* and a2 multiplied by EntangleHeight - 1, above it unmultiplied.
C5_CatchUp ==
    SubsidyAccepted =>
        /\ height = EntangleHeight =>
              /\ Len(Cb) >= 3
              /\ Cb[2].Value = PrevCb[2].Value + A1 * (EntangleHeight - 1)
                               - ComputedEntangleAmount
              /\ Cb[3].Value = PrevCb[3].Value + A2 * (EntangleHeight - 1)
        /\ height > EntangleHeight =>
              /\ Len(Cb) >= 3
              /\ Cb[2].Value = PrevCb[2].Value + A1 - ComputedEntangleAmount
              /\ Cb[3].Value = PrevCb[3].Value + A2

----------------------------------------------------------------------------
(* CheckTransactionInputs applied to a transaction *)

\* The entries a view can hold for an outpoint: none, one below
\* EntangleHeight - 1, a pool output of a coinbase, a non-pool output of the
\* same coinbase, a spent one
EntryKinds ==
    { NoEntry,
      Entry(6, EntangleHeight - 2, FALSE, FALSE, FALSE),
      Entry(6, EntangleHeight - 1, TRUE, TRUE, FALSE),
      Entry(6, EntangleHeight - 1, TRUE, FALSE, FALSE),
      Entry(6, 1, FALSE, FALSE, TRUE) }

\* Candidate transactions: a first input that is null or not, a signature
\* script that encodes the block height, a height below EntangleHeight or
\* nothing, and up to two further inputs
InputsTxs(h) ==
    { TxOf(<<TxInOf(o, sc)>> \o [i \in 1..Len(more) |-> TxInOf(more[i], <<>>)],
           <<TxOutOf(5)>>) :
        o \in {NullOutPoint, 1},
        sc \in {HeightScript(h), HeightScript(EntangleHeight - 1), <<>>},
        more \in SeqsUpTo(OutPoints \cup {MaxOutPoint + 1}, 2) }

InputsInit ==
    /\ op = "inputs"
    /\ pc = "call"
    /\ height \in EntangleHeight..(EntangleHeight + 1)
    /\ subsidy = baseSubsidy
    /\ preBlock = <<>>
    /\ env \in [order : {"asc"}, extract : [1..2 -> ExtractResults]]
    /\ \E t \in InputsTxs(height) : block = <<t>>
    /\ view \in [OutPoints -> EntryKinds]
    /\ view0 = view
    /\ stxos = <<>>
    /\ stxos0 = <<>>
    /\ ret = [fee |-> 0, err |-> Nil]

CallCheckTransactionInputs ==
    /\ op = "inputs"
    /\ pc = "call"
    /\ pc' = "done"
    /\ ret' = CheckTransactionInputs(block[1], height, view, env.extract)
    /\ UNCHANGED <<op, height, block, preBlock, subsidy, view, stxos, view0, stxos0, env>>

InputsNext == CallCheckTransactionInputs

SpecInputs == InputsInit /\ [][InputsNext]_vars

InputsAccepted == op = "inputs" /\ pc = "done" /\ ret.err = Nil

\* A usable pool input: held by the view, unspent, not below
\* EntangleHeight - 1
ValidPoolInput(t, j) ==
    LET utxo == LookupEntry(view, t.TxIn[j].PreviousOutPoint)
    IN  utxo.exists /\ ~utxo.spent /\ utxo.blockHeight >= EntangleHeight - 1

InputsDone == op = "inputs" /\ pc = "done"

\* The utxos the inputs of the transaction reference
InputUtxos ==
    {LookupEntry(view, block[1].TxIn[j].PreviousOutPoint) : j \in 1..Len(block[1].TxIn)}

\* C12: a non-coinbase transaction is accepted only if every referenced
\* coinbase output that is not a pool output is at least CoinbaseMaturity
\* blocks old; a pool output is never refused as immature.
C12_CoinbaseMaturity ==
    (InputsDone /\ ~isCoinBaseInParam(block[1])) =>
        /\ ret.err = Nil =>
              \A u \in InputUtxos :
                  (u.isCoinBase /\ ~u.isPool) =>
                      height - u.blockHeight >= CoinbaseMaturity
        /\ ret.err = "ErrImmatureSpend" =>
              \E u \in InputUtxos :
                  /\ u.isCoinBase /\ ~u.isPool
                  /\ height - u.blockHeight < CoinbaseMaturity

\* An accepted spend of a non-pool coinbase output of exactly
\* CoinbaseMaturity blocks
C12_Witness ==
    /\ InputsAccepted
    /\ ~isCoinBaseInParam(block[1])
    /\ \E u \in InputUtxos :
          u.isCoinBase /\ ~u.isPool /\ height - u.blockHeight = CoinbaseMaturity

\* An accepted spend of a pool output younger than CoinbaseMaturity
C12_YoungPoolSpent ==
    /\ InputsAccepted
    /\ ~isCoinBaseInParam(block[1])
    /\ \E u \in InputUtxos :
          u.isCoinBase /\ u.isPool /\ height - u.blockHeight < CoinbaseMaturity

\* A refused spend of a non-pool coinbase output one block short
C12_ImmatureRefused ==
    /\ InputsDone
    /\ ret.err = "ErrImmatureSpend"
    /\ \E u \in InputUtxos :
          u.isCoinBase /\ ~u.isPool /\ height - u.blockHeight = CoinbaseMaturity - 1

\* Input j (1 or 2) of the transaction references a usable utxo for which
\* matchPoolFromUtxo fails
PoolMismatch(j) ==
    /\ Len(block[1].TxIn) > j
    /\ ValidPoolInput(block[1], j + 1)
    /\ matchPoolFromUtxo(LookupEntry(view, block[1].TxIn[j + 1].PreviousOutPoint),
                         j, env.extract) # Nil

\* The loop of checkMergeTxInCoinbase gets as far as input j: every input
\* between 0 and j references a usable utxo
InputReached(j) == \A k \in 1..(j - 1) : ValidPoolInput(block[1], k + 1)

\* A coinbase above EntangleHeight has been through CheckTransactionInputs
CoinbaseAboveEntangle ==
    InputsDone /\ height > EntangleHeight /\ isCoinBaseInParam(block[1])

\* C24 as stated: a pool mismatch at input 1 or at input 2 of a coinbase
\* above EntangleHeight always ends in fee 0 and no error.
C24_MismatchAlwaysAccepted ==
    (CoinbaseAboveEntangle /\ \E j \in 1..2 : PoolMismatch(j)) =>
        ret = [fee |-> 0, err |-> Nil]

\* C24: a pool mismatch at input 1 or input 2 of a coinbase above
\* EntangleHeight, at an input the loop gets to, ends in fee 0 and no
\* error; the inputs after it are not looked at.
C24_ReachedMismatchAccepted ==
    (CoinbaseAboveEntangle
     /\ \E j \in 1..2 : PoolMismatch(j) /\ InputReached(j)) =>
        ret = [fee |-> 0, err |-> Nil]

\* Input 1 matches its pool, input 2 does not, and the coinbase is accepted
C24_Witness ==
    /\ CoinbaseAboveEntangle
    /\ ~PoolMismatch(1)
    /\ PoolMismatch(2) /\ InputReached(2)
    /\ ret = [fee |-> 0, err |-> Nil]

\* A mismatch at input 1 hides an input 2 that references nothing
C24_MismatchHidesMissing ==
    /\ CoinbaseAboveEntangle
    /\ PoolMismatch(1)
    /\ ~LookupEntry(view, block[1].TxIn[3].PreviousOutPoint).exists
    /\ ret = [fee |-> 0, err |-> Nil]

\* Input 1 references nothing: the mismatch at input 2 is not reached
C24_EarlierInputRefused ==
    /\ CoinbaseAboveEntangle
    /\ PoolMismatch(2)
    /\ ~InputReached(2)
    /\ ret.err # Nil

\* C9: an accepted coinbase above EntangleHeight has exactly 3 inputs, and
\* inputs 1 and 2 each reference a held, unspent utxo of height at least
\* EntangleHeight - 1.
C9_CoinbaseInputs ==
    (/\ InputsAccepted
     /\ height > EntangleHeight
     /\ block[1].TxIn[1].PreviousOutPoint = NullOutPoint) =>
        /\ Len(block[1].TxIn) = 3
        /\ ValidPoolInput(block[1], 2)
        /\ ValidPoolInput(block[1], 3)

\* The same for coinbases that carry three inputs and encode their own
\* height: input 2 is reached only when the pool match of input 1 succeeds
C9_ThreeInputCoinbase ==
    (/\ InputsAccepted
     /\ height > EntangleHeight
     /\ isCoinBaseInParam(block[1])
     /\ Len(block[1].TxIn) = 3) =>
        /\ ValidPoolInput(block[1], 2)
        /\ ValidPoolInput(block[1], 3)

----------------------------------------------------------------------------
(* checkConnectBlock applied to a block *)

\* The previous blocks of the runs: a full coinbase, and coinbases short of
\* the KeepedAmount output and of the pool-2 output
ConnectPreBlocks ==
    { PreCoinbase(<<TxOutOf(780), TxOutOf(60), TxOutOf(5), KeepOut(0, KeepedAmount(0, 0))>>),
      PreCoinbase(<<TxOutOf(780), TxOutOf(60), TxOutOf(5)>>),
      PreCoinbase(<<TxOutOf(780), TxOutOf(60)>>) }

ConnectTxKinds ==
    { PlainTx(1),
      [PlainTx(1) EXCEPT !.SigOps = MaxBlockSigOps + 1],
      PlainTx(MaxOutPoint + 1),
      EntangleTx(2, <<LtcInfo(20, 1, "b")>>) }

ConnectDraws == [d0 |-> {0}, over |-> TRUE, d1 |-> {0}, d2 |-> {0},
                 d4 |-> {0}, d5 |-> {0}, n |-> 3..5]

\* The utxo cache: the spendable outpoints and the pool outputs of the
\* previous coinbase, or the same with outpoint 2 already spent
PoolEntries(pre, h) ==
    [o \in {PoolOutPoint(1), PoolOutPoint(2)} |->
        LET j == o - MaxOutPoint
        IN  Entry(IF Len(pre[1].TxOut) >= j THEN pre[1].TxOut[j].Value ELSE 0,
                  h - 1, TRUE, TRUE, FALSE)]

UtxoCaches(pre, h) ==
    { Merge([o \in OutPoints |-> Entry(6, 1, FALSE, FALSE, sp /\ o = 2)],
            PoolEntries(pre, h)) : sp \in BOOLEAN }

\* The views a caller hands in: a fresh one, or one that already holds
\* outpoint 1
GivenViews == { <<>>, [o \in {1} |-> Entry(6, 1, FALSE, FALSE, FALSE)] }

\* The collaborators of checkConnectBlock: every one behaving, or one of
\* them failing
GoodExtract == [i \in 1..2 |->
                   [class |-> "PubKeyHashTy", reqSigs |-> 1, nAddrs |-> 1, addrEq |-> TRUE]]

GoodEnv == [isGenesis |-> FALSE, cacheErr |-> FALSE, extract |-> NoExtract,
            sequenceErr |-> Nil, preBlockErr |-> FALSE, csv |-> "active",
            scripts |-> "ok", order |-> "asc", cache |-> <<>>]

ConnectEnvs ==
    { GoodEnv,
      [GoodEnv EXCEPT !.extract = GoodExtract],
      [GoodEnv EXCEPT !.isGenesis = TRUE],
      [GoodEnv EXCEPT !.cacheErr = TRUE],
      [GoodEnv EXCEPT !.sequenceErr = "sequence error"],
      [GoodEnv EXCEPT !.preBlockErr = TRUE],
      [GoodEnv EXCEPT !.csv = "state error"],
      [GoodEnv EXCEPT !.csv = "lock error"],
      [GoodEnv EXCEPT !.csv = "lock not met"],
      [GoodEnv EXCEPT !.csv = "inactive"],
      [GoodEnv EXCEPT !.scripts = "fail"] }

Init ==
    /\ op = "connect"
    /\ pc = "call"
    /\ height \in EntangleHeight..(EntangleHeight + 1)
    /\ subsidy = CalcBlockSubsidy(height)
    /\ preBlock \in ConnectPreBlocks
    /\ \E e \in ConnectEnvs, cache \in UtxoCaches(preBlock, height) :
          env = [e EXCEPT !.cache = cache]
    /\ \E txs \in SeqsUpTo(ConnectTxKinds, MaxTxs) :
         \E cb \in CoinbaseDraws(height, subsidy, preBlock, txs, env.order,
                                  ConnectDraws) :
            block = <<cb>> \o txs
    /\ view \in GivenViews
    /\ view0 = view
    /\ stxos = <<>>
    /\ stxos0 = <<>>
    /\ ret = Returned(Nil, "call", view, stxos)

CallCheckConnectBlock ==
    /\ op = "connect"
    /\ pc = "call"
    /\ pc' = "done"
    /\ \E r \in {checkConnectBlock(height, block, preBlock, view, stxos,
                                     env.cache, env)} :
           /\ ret' = r
           /\ view' = r.view
           /\ stxos' = r.stxos
    /\ UNCHANGED <<op, height, block, preBlock, subsidy, view0, stxos0, env>>

Next == CallCheckConnectBlock

Spec == Init /\ [][Next]_vars

ConnectDone == op = "connect" /\ pc = "done"

\* C1: when checkConnectBlock returns an error, the view and the journal
\* are as they were handed in, at whichever step the error is reported.
C1_ErrorLeavesViewUntouched ==
    (ConnectDone /\ ret.err # Nil) => (view = view0 /\ stxos = stxos0)

\* The view the checks of the block's inputs run against
LoadedView == addInputUtxos(view0, env.cache, block)

\* The fees CheckTransactionInputs returns, summed over the block
RECURSIVE FeesFrom(_)
FeesFrom(i) ==
    IF i > Len(block) THEN 0
    ELSE CheckTransactionInputs(block[i], height, LoadedView, env.extract).fee
         + FeesFrom(i + 1)

ReachedCoinbaseStep ==
    ConnectDone /\ ret.step \in {"coinbase", "preblock", "subsidy", "csv", "scripts", "end"}

C11_OverpayRefused ==
    /\ ReachedCoinbaseStep
    /\ block[1].TxOut[1].Value = CalcBlockSubsidy(height) + FeesFrom(1) + 1
    /\ ret.err = "ErrBadCoinbaseValue"

\* connectTransactions is reached and fails on the loaded view
ConnectFails ==
    /\ ConnectDone
    /\ ret.step \notin {"genesis", "load", "sigops", "inputs", "sequence"}
    /\ connectTransactions(LoadedView, block, height, stxos0).err # Nil

\* C23: when connectTransactions fails, checkConnectBlock returns nil at
\* that step; none of the later checks runs and no error reaches the caller.
C23_ConnectFailureIsNil ==
    ConnectFails => (ret.err = Nil /\ ret.step = "connect")

\* A block whose coinbase pays more than subsidy and fees and whose
\* transactions fail to connect: nil is returned
C23_Witness ==
    /\ ConnectFails
    /\ block[1].TxOut[1].Value > CalcBlockSubsidy(height) + FeesFrom(1)
    /\ ret.err = Nil
    /\ ret.step = "connect"

\* The sigop loop gets to transaction i, and CountP2SHSigOps fails for it
P2SHFailsAt(i) ==
    /\ ConnectDone
    /\ ret.step \notin {"genesis", "load"}
    /\ i \in 1..Len(block)
    /\ SigOpsStage(SubSeq(block, 1, i - 1), 1, LoadedView, 0) = Nil
    /\ CountP2SHSigOps(block[i], i = 1, LoadedView).err # Nil

\* C26: when CountP2SHSigOps fails for a transaction, GetSigOps returns
\* that error and checkConnectBlock rejects the block with it in the sigop
\* loop; the failure is not turned into a count with a nil error.
C26_P2SHErrorReturned ==
    \A i \in 1..Len(block) :
        P2SHFailsAt(i) =>
            /\ GetSigOps(block[i], i = 1, LoadedView).err
                   = CountP2SHSigOps(block[i], i = 1, LoadedView).err
            /\ ret.step = "sigops"
            /\ ret.err = CountP2SHSigOps(block[i], i = 1, LoadedView).err

\* A transaction with an input that references nothing: GetSigOps reports
\* 0 sigops and no error, and the block is refused by the input loop
C26_ErrorSwallowed ==
    \E i \in 1..Len(block) :
        /\ P2SHFailsAt(i)
        /\ GetSigOps(block[i], i = 1, LoadedView) = [n |-> 0, err |-> Nil]
        /\ ret.step = "inputs"
        /\ ret.err = "ErrMissingTxOut"

\* C10: a block above EntangleHeight that checkConnectBlock accepts has a
\* coinbase of at least four outputs; one with fewer is rejected.
\* (A block is accepted when every step ran and nil was returned; the nil
\* returned for a failed connectTransactions is left aside.)
C10_FourCoinbaseOutputs ==
    (ConnectDone /\ height > EntangleHeight /\ ret.step = "end") =>
        Len(block[1].TxOut) >= 4

----------------------------------------------------------------------------
(* The entangle verifier (cross/verifyEntangle.go) *)

dogePoolAddr == "DNGzkoZbnVMihLTMq8M1m7L62XvN3d2cN2"
ltcPoolAddr == "MUy9qiaLQtaqmKBSk27FXrEEfUkRBeddCZ"
dogeMaturity == 14
ltcMaturity == 14

\* txscript.ScriptHashTy, the class the pool output must have
ScriptHashTy == 2

NoPub == "nil"

\* CacheEntangleInfo.FetchEntangleUtxoView: whether the item was entangled
\* before, keyed by foreign transaction hash, height and chain
FetchEntangleUtxoView(cache, v) ==
    <<v.ExtTxHash, v.Height, v.ExTxType>> \in cache.keys

\* The repeat check runs against a cache that is never consulted
CacheConsulted_Never(cache) == FALSE

\* ev.Cache != nil
CacheConsulted(cache) == ~cache.isNil

\* The comparison with the boundary included
MaturityReached_Inclusive(count, h, maturity) == count - h >= maturity

\* count-int64(height) > maturity
MaturityReached(count, h, maturity) == count - h > maturity

\* What one verification reports: the pubkey, the error, and the RPC calls
\* it made
Verified(pub, e, calls) == [pub |-> pub, err |-> e, rpcCalls |-> calls]

\* The checks of one foreign transaction output, shared in shape by the
\* two chains; client is the RPC client of the chain as the run sees it
verifyDogeTx(ExtTxHash, Vout, Amount, h, client) ==
    LET tx == client.raw[ExtTxHash] IN
    IF tx.rpcErr THEN Verified(NoPub, "rpc error", 1)
    ELSE IF Len(tx.TxOut) < Vout THEN Verified(NoPub, "doge TxOut index err", 1)
    ELSE IF Vout >= Len(tx.TxOut) THEN Verified(NoPub, "panic", 1)
    ELSE LET out == tx.TxOut[Vout + 1] IN
    IF out.Value # Amount THEN Verified(NoPub, "amount err", 1)
    ELSE IF out.class # ScriptHashTy THEN Verified(NoPub, "doge PkScript err", 1)
    ELSE IF out.pubErr THEN Verified(NoPub, "extract pub error", 1)
    ELSE IF out.addrErr THEN Verified(NoPub, "doge Pool err", 1)
    ELSE IF out.addr # dogePoolAddr THEN Verified(NoPub, "doge dogePoolPub err", 1)
    ELSE IF tx.pkErr THEN Verified(NoPub, "doge PkScript err", 1)
    ELSE IF client.count.err THEN Verified(NoPub, "rpc error", 2)
    ELSE IF MaturityReached(client.count.n, h, dogeMaturity)
    THEN Verified(tx.pk, Nil, 2)
    ELSE Verified(NoPub, "dogeMaturity err", 2)

verifyLtcTx(ExtTxHash, Vout, Amount, h, client) ==
    LET tx == client.raw[ExtTxHash] IN
    IF tx.rpcErr THEN Verified(NoPub, "rpc error", 1)
    ELSE IF Len(tx.TxOut) < Vout THEN Verified(NoPub, "ltc TxOut index err", 1)
    ELSE IF Vout >= Len(tx.TxOut) THEN Verified(NoPub, "panic", 1)
    ELSE LET out == tx.TxOut[Vout + 1] IN
    IF out.Value # Amount THEN Verified(NoPub, "amount err", 1)
    ELSE IF out.class # ScriptHashTy THEN Verified(NoPub, "ltc PkScript err", 1)
    ELSE IF out.pubErr THEN Verified(NoPub, "extract pub error", 1)
    ELSE IF out.addrErr THEN Verified(NoPub, "ltcaddr err", 1)
    ELSE IF out.addr # ltcPoolAddr THEN Verified(NoPub, "ltc ltcPoolAddr err", 1)
    ELSE IF tx.pkErr THEN Verified(NoPub, "ltc PkScript err", 1)
    ELSE IF client.count.err THEN Verified(NoPub, "rpc error", 2)
    ELSE IF MaturityReached(client.count.n, h, ltcMaturity)
    THEN Verified(tx.pk, Nil, 2)
    ELSE Verified(NoPub, "ltcMaturity err", 2)

verifyTx(ExTxType, ExtTxHash, Vout, h, amount, foreign) ==
    IF ExTxType = ExpandedTxEntangle_Doge
    THEN verifyDogeTx(ExtTxHash, Vout, amount, h, foreign.doge)
    ELSE IF ExTxType = ExpandedTxEntangle_Ltc
    THEN verifyLtcTx(ExtTxHash, Vout, amount, h, foreign.ltc)
    ELSE Verified(NoPub, Nil, 0)

VerifyResult(pairs, e, cause, calls) ==
    [pairs |-> pairs, err |-> e, cause |-> cause, rpcCalls |-> calls]

\* The verification loop over the items in the order the range visits them
RECURSIVE VerifyLoop(_, _, _, _, _)
VerifyLoop(t, keys, foreign, pairs, calls) ==
    IF keys = <<>> THEN VerifyResult(pairs, Nil, Nil, calls)
    ELSE LET i == Head(keys)
             v == t.TxOut[i].Info
             r == verifyTx(v.ExTxType, v.ExtTxHash, v.Index, v.Height, v.Amount, foreign)
         IN  IF r.err # Nil
             THEN VerifyResult(<<>>, "txid verify failed", r.err, calls + r.rpcCalls)
             ELSE VerifyLoop(t, Tail(keys), foreign,
                             Append(pairs, [EType |-> v.ExTxType, Index |-> i - 1,
                                            Pub |-> r.pub]),
                             calls + r.rpcCalls)

VerifyEntangleTx(t, cache, foreign, order) ==
    LET einfos == IsEntangleTx(t) IN
    IF einfos = {} THEN VerifyResult(<<>>, "not entangle tx", Nil, 0)
    ELSE IF CacheConsulted(cache)
            /\ \E i \in einfos : FetchEntangleUtxoView(cache, t.TxOut[i].Info)
    THEN VerifyResult(<<>>, "txid has already entangle", Nil, 0)
    ELSE VerifyLoop(t, MapRange(einfos, order), foreign, <<>>, 0)

\* BlockChain.checkEntangleTx: the error of VerifyEntangleTx
checkEntangleTx(t, cache, foreign, order) == VerifyEntangleTx(t, cache, foreign, order)

\* The largest Height among the entangle items of a transaction
RECURSIVE MaxHeightOf(_, _, _)
MaxHeightOf(t, keys, max) ==
    IF keys = <<>> THEN max
    ELSE LET h == t.TxOut[Head(keys)].Info.Height
         IN  MaxHeightOf(t, Tail(keys), IF max < h THEN h ELSE max)

\* CheckBlockEntangle from transaction i on; curHeight is handed on as the
\* loop leaves it
RECURSIVE CheckBlockEntangle(_, _, _, _, _, _, _)
CheckBlockEntangle(blk, i, curHeight, cache, foreign, order, calls) ==
    IF i > Len(blk) THEN [err |-> Nil, rpcCalls |-> calls]
    ELSE LET einfos == IsEntangleTx(blk[i]) IN
         IF einfos = {}
         THEN CheckBlockEntangle(blk, i + 1, curHeight, cache, foreign, order, calls)
         ELSE LET max == MaxHeightOf(blk[i], MapRange(einfos, order), 0) IN
              IF curHeight > max
              THEN [err |-> "unordered entangle tx in the block", rpcCalls |-> calls]
              ELSE LET r == checkEntangleTx(blk[i], cache, foreign, order) IN
                   IF r.err # Nil
                   THEN [err |-> r.err, rpcCalls |-> calls + r.rpcCalls]
                   ELSE CheckBlockEntangle(blk, i + 1, curHeight, cache, foreign,
                                           order, calls + r.rpcCalls)

----------------------------------------------------------------------------
(* Inputs of the verifier runs *)

\* The foreign block count of the runs, and the heights of the items around
\* the maturity boundary below it
ForeignCount == 20

\* One output of a foreign transaction: its value, its script class, what
\* extracting and encoding its script hash comes to
ForeignOut(v, class, pubErr, addrErr, addr) ==
    [Value |-> v, class |-> class, pubErr |-> pubErr, addrErr |-> addrErr, addr |-> addr]

ForeignTx(rpcErr, outs, pkErr) ==
    [rpcErr |-> rpcErr, TxOut |-> outs, pkErr |-> pkErr, pk |-> "pk"]

UnknownTx == ForeignTx(TRUE, <<>>, FALSE)

\* The foreign transactions a client can return for a hash, pool being the
\* pool address of its chain and other the one of the other chain
ForeignTxKinds(pool, other) ==
    { ForeignTx(FALSE, <<ForeignOut(20, ScriptHashTy, FALSE, FALSE, pool)>>, FALSE),
      ForeignTx(FALSE, <<ForeignOut(7, ScriptHashTy, FALSE, FALSE, pool),
                         ForeignOut(20, ScriptHashTy, FALSE, FALSE, pool)>>, FALSE),
      ForeignTx(FALSE, <<ForeignOut(19, ScriptHashTy, FALSE, FALSE, pool)>>, FALSE),
      ForeignTx(FALSE, <<ForeignOut(20, 1, FALSE, FALSE, pool)>>, FALSE),
      ForeignTx(FALSE, <<ForeignOut(20, ScriptHashTy, TRUE, FALSE, pool)>>, FALSE),
      ForeignTx(FALSE, <<ForeignOut(20, ScriptHashTy, FALSE, TRUE, pool)>>, FALSE),
      ForeignTx(FALSE, <<ForeignOut(20, ScriptHashTy, FALSE, FALSE, other)>>, FALSE),
      ForeignTx(FALSE, <<ForeignOut(20, ScriptHashTy, FALSE, FALSE, pool)>>, TRUE),
      UnknownTx }

ForeignCounts ==
    { [n |-> ForeignCount, err |-> FALSE],
      [n |-> ForeignCount + 1, err |-> FALSE],
      [n |-> 0, err |-> TRUE] }

\* The two chains: the doge client knows hash "a", the ltc client hash "b"
ForeignWorlds(DK, LK, CS) ==
    { [doge |-> [raw |-> [x \in {"a", "b"} |-> IF x = "a" THEN d ELSE UnknownTx],
                 count |-> dc],
       ltc |-> [raw |-> [x \in {"a", "b"} |-> IF x = "b" THEN l ELSE UnknownTx],
                count |-> lc]] :
        d \in DK, l \in LK, dc \in CS, lc \in CS }

DogeItem(vout, h) == EntangleTxInfo(ExpandedTxEntangle_Doge, vout, h, 20, "a")
LtcItem(vout, h) == EntangleTxInfo(ExpandedTxEntangle_Ltc, vout, h, 20, "b")

\* Entangle transactions: one or two items, heights around the boundary,
\* output indexes inside, at the end of and past the foreign outputs
EntangleTxKinds ==
    { EntangleTx(1, <<DogeItem(0, ForeignCount - dogeMaturity - 1)>>),
      EntangleTx(1, <<DogeItem(0, ForeignCount - dogeMaturity - 2)>>),
      EntangleTx(1, <<LtcItem(0, ForeignCount - ltcMaturity)>>),
      EntangleTx(1, <<DogeItem(0, ForeignCount - dogeMaturity - 1),
                      LtcItem(0, ForeignCount - ltcMaturity - 2)>>),
      EntangleTx(1, <<LtcItem(1, ForeignCount - ltcMaturity - 1)>>),
      EntangleTx(1, <<DogeItem(2, ForeignCount - dogeMaturity - 1)>>),
      PlainTx(1) }

\* An item of a chain the verifier does not know: the ex_type after Ltc
OtherItem(vout, h) == EntangleTxInfo(ExpandedTxEntangle_Ltc + 1, vout, h, 20, "a")

\* The transactions handed to VerifyEntangleTx: the ones above, and one
\* whose single item is of the unknown chain
VerifyTxKinds ==
    EntangleTxKinds \cup {EntangleTx(1, <<OtherItem(0, ForeignCount - ltcMaturity - 1)>>)}

CacheKey(v) == <<v.ExtTxHash, v.Height, v.ExTxType>>

\* The dedup cache: absent, empty, or holding an item entangled before
EntangleCaches ==
    { [isNil |-> TRUE, keys |-> {}],
      [isNil |-> FALSE, keys |-> {}],
      [isNil |-> FALSE, keys |-> {CacheKey(DogeItem(0, ForeignCount - dogeMaturity - 1))}],
      [isNil |-> FALSE, keys |-> {CacheKey(LtcItem(0, ForeignCount - ltcMaturity - 2))}] }

\* The order of a range over a map shows only on a map of two items
OrdersFor(txs) ==
    IF \E i \in 1..Len(txs) : Cardinality(IsEntangleTx(txs[i])) > 1
    THEN MapOrders ELSE {"asc"}

----------------------------------------------------------------------------
(* VerifyEntangleTx applied to a transaction *)

VerifyInit ==
    /\ op = "verify"
    /\ pc = "call"
    /\ height = EntangleHeight + 1
    /\ subsidy = baseSubsidy
    /\ preBlock = <<>>
    /\ \E t \in VerifyTxKinds : block = <<t>>
    /\ \E c \in EntangleCaches, o \in OrdersFor(block),
          f \in ForeignWorlds(ForeignTxKinds(dogePoolAddr, ltcPoolAddr),
                              ForeignTxKinds(ltcPoolAddr, dogePoolAddr),
                              ForeignCounts) :
          env = [cache |-> c, order |-> o, foreign |-> f]
    /\ view = <<>>
    /\ view0 = view
    /\ stxos = <<>>
    /\ stxos0 = <<>>
    /\ ret = VerifyResult(<<>>, Nil, Nil, 0)

CallVerifyEntangleTx ==
    /\ op = "verify"
    /\ pc = "call"
    /\ pc' = "done"
    /\ ret' = VerifyEntangleTx(block[1], env.cache, env.foreign, env.order)
    /\ UNCHANGED <<op, height, block, preBlock, subsidy, view, stxos, view0, stxos0, env>>

VerifyNext == CallVerifyEntangleTx

SpecVerify == VerifyInit /\ [][VerifyNext]_vars

----------------------------------------------------------------------------
(* CheckBlockEntangle applied to a block *)

PlainCoinbase(h) ==
    TxOf(<<TxInOf(NullOutPoint, HeightScript(h)),
           TxInOf(PoolOutPoint(1), <<>>), TxInOf(PoolOutPoint(2), <<>>)>>,
         <<TxOutOf(800), TxOutOf(190), TxOutOf(10), KeepOut(0, KeepedAmount(0, 0))>>)

EntangleInit ==
    /\ op = "entangle"
    /\ pc = "call"
    /\ height = EntangleHeight + 1
    /\ subsidy = baseSubsidy
    /\ preBlock = <<>>
    /\ \E txs \in SeqsUpTo(EntangleTxKinds, MaxTxs) :
          block = <<PlainCoinbase(height)>> \o txs
    /\ \E c \in EntangleCaches, o \in OrdersFor(block),
          f \in ForeignWorlds(
                  {k \in ForeignTxKinds(dogePoolAddr, ltcPoolAddr) :
                      k.rpcErr \/ (~k.pkErr /\ Len(k.TxOut) = 1 /\ ~k.TxOut[1].pubErr
                                   /\ ~k.TxOut[1].addrErr)},
                  {k \in ForeignTxKinds(ltcPoolAddr, dogePoolAddr) :
                      k.rpcErr \/ (~k.pkErr /\ Len(k.TxOut) = 1 /\ ~k.TxOut[1].pubErr
                                   /\ ~k.TxOut[1].addrErr)},
                  {c2 \in ForeignCounts : ~c2.err}) :
          env = [cache |-> c, order |-> o, foreign |-> f]
    /\ view = <<>>
    /\ view0 = view
    /\ stxos = <<>>
    /\ stxos0 = <<>>
    /\ ret = [err |-> Nil, rpcCalls |-> 0]

CallCheckBlockEntangle ==
    /\ op = "entangle"
    /\ pc = "call"
    /\ pc' = "done"
    /\ ret' = CheckBlockEntangle(block, 1, 0, env.cache, env.foreign, env.order, 0)
    /\ UNCHANGED <<op, height, block, preBlock, subsidy, view, stxos, view0, stxos0, env>>

EntangleNext == CallCheckBlockEntangle

SpecEntangle == EntangleInit /\ [][EntangleNext]_vars

----------------------------------------------------------------------------
(* Properties of the entangle checks *)

EntangleDone == op = "entangle" /\ pc = "done"
VerifyDone == op = "verify" /\ pc = "done"

\* The entangle items of a transaction
ItemsOf(t) == {t.TxOut[i].Info : i \in IsEntangleTx(t)}

\* The largest entangle height of a transaction
MaxItemHeight(t) ==
    CHOOSE h \in {v.Height : v \in ItemsOf(t)} : \A v \in ItemsOf(t) : v.Height <= h

\* C6: an accepted block has the maximum entangle heights of its
\* entangle-bearing transactions non-decreasing in block order.
C6_OrderedEntangle ==
    (EntangleDone /\ ret.err = Nil) =>
        \A i, j \in 1..Len(block) :
            (i < j /\ ItemsOf(block[i]) # {} /\ ItemsOf(block[j]) # {}) =>
                MaxItemHeight(block[i]) <= MaxItemHeight(block[j])

CacheHit ==
    /\ ~env.cache.isNil
    /\ \E v \in ItemsOf(block[1]) : CacheKey(v) \in env.cache.keys

\* C7: when the dedup cache holds the key of any item of the transaction,
\* VerifyEntangleTx returns the "txid has already entangle" error and makes
\* no foreign-chain RPC call.
C7_DedupBeforeRpc ==
    (VerifyDone /\ CacheHit) =>
        /\ ret.err = "txid has already entangle"
        /\ ret.rpcCalls = 0
        /\ ret.pairs = <<>>

\* The hit is on the second item of a transaction whose first item would
\* verify
C7_Witness ==
    /\ VerifyDone
    /\ CacheHit
    /\ Cardinality(ItemsOf(block[1])) = 2
    /\ CacheKey(block[1].TxOut[1].Info) \notin env.cache.keys
    /\ verifyTx(ExpandedTxEntangle_Doge, "a", 0, ForeignCount - 15, 20,
                env.foreign).err = Nil
    /\ ret.err = "txid has already entangle"

ClientOf(v) ==
    IF v.ExTxType = ExpandedTxEntangle_Doge THEN env.foreign.doge ELSE env.foreign.ltc

PoolAddrOf(v) ==
    IF v.ExTxType = ExpandedTxEntangle_Doge THEN dogePoolAddr ELSE ltcPoolAddr

\* The foreign output exists and its amount, script class, pool address and
\* pubkey checks pass, and the block count is known
OtherChecksPass(v) ==
    LET tx == ClientOf(v).raw[v.ExtTxHash] IN
    /\ ~tx.rpcErr
    /\ v.Index < Len(tx.TxOut)
    /\ LET out == tx.TxOut[v.Index + 1] IN
          /\ out.Value = v.Amount
          /\ out.class = 2
          /\ ~out.pubErr
          /\ ~out.addrErr
          /\ out.addr = PoolAddrOf(v)
    /\ ~tx.pkErr
    /\ ~ClientOf(v).count.err

Mature(v) == ClientOf(v).count.n - v.Height > 14

C8_BoundaryRefused ==
    /\ VerifyDone
    /\ ~CacheHit
    /\ Cardinality(ItemsOf(block[1])) = 1
    /\ \A v \in ItemsOf(block[1]) :
          OtherChecksPass(v) /\ ClientOf(v).count.n = v.Height + 14
    /\ ret.cause = "ltcMaturity err"

KnownTxTypes == {ExpandedTxEntangle_Doge, ExpandedTxEntangle_Ltc}

\* C30: VerifyEntangleTx emits a tuple only for an item that passed the
\* foreign-chain verification of its ex_type; an item of another ex_type
\* yields no tuple and does not let the transaction verify without an RPC
\* check.
C30_TupleOnlyAfterForeignCheck ==
    VerifyDone =>
        /\ \A k \in 1..Len(ret.pairs) :
              ret.pairs[k].EType \in KnownTxTypes /\ ret.pairs[k].Pub # NoPub
        /\ ret.err = Nil => ret.rpcCalls >= Cardinality(IsEntangleTx(block[1]))
        /\ (\E v \in ItemsOf(block[1]) : v.ExTxType \notin KnownTxTypes)
               => ret.err # Nil

\* An item of an unknown ex_type: verified without any RPC call, its tuple
\* emitted with no pubkey
C30_UnknownTypeVerified ==
    /\ VerifyDone
    /\ \E v \in ItemsOf(block[1]) : v.ExTxType \notin KnownTxTypes
    /\ ret.err = Nil
    /\ ret.rpcCalls = 0
    /\ Len(ret.pairs) = 1
    /\ ret.pairs[1].EType \notin KnownTxTypes
    /\ ret.pairs[1].Pub = NoPub

\* For the two known chains a tuple comes only with the RPC checks made
C30_KnownTypesChecked ==
    (VerifyDone /\ ret.err = Nil
     /\ \A v \in ItemsOf(block[1]) : v.ExTxType \in KnownTxTypes) =>
        /\ ret.rpcCalls = 2 * Cardinality(IsEntangleTx(block[1]))
        /\ \A k \in 1..Len(ret.pairs) : ret.pairs[k].Pub # NoPub

\* The fetched foreign transaction of the item has no output of index
\* v.Index
VoutOutOfRange(v) ==
    LET tx == ClientOf(v).raw[v.ExtTxHash]
    IN  ~tx.rpcErr /\ v.Index >= Len(tx.TxOut)

\* C25: verifyDogeTx and verifyLtcTx return an error, and do not crash,
\* for every vout at or past the number of outputs of the fetched foreign
\* transaction.
C25_VoutOutOfRangeIsError ==
    (/\ VerifyDone
     /\ ~CacheHit
     /\ Cardinality(ItemsOf(block[1])) = 1
     /\ \A v \in ItemsOf(block[1]) : VoutOutOfRange(v)) =>
        /\ ret.err # Nil
        /\ ret.cause # "panic"

\* A vout equal to the number of outputs: the index test lets it through
\* and the read of TxOut[vout] is out of range
C25_VoutAtLengthCrashes ==
    /\ VerifyDone
    /\ \E v \in ItemsOf(block[1]) :
          /\ ~ClientOf(v).raw[v.ExtTxHash].rpcErr
          /\ v.Index = Len(ClientOf(v).raw[v.ExtTxHash].TxOut)
    /\ ret.cause = "panic"

\* A vout past the number of outputs is refused with the index error
C25_VoutPastLengthRefused ==
    /\ VerifyDone
    /\ \E v \in ItemsOf(block[1]) :
          /\ ~ClientOf(v).raw[v.ExtTxHash].rpcErr
          /\ v.Index > Len(ClientOf(v).raw[v.ExtTxHash].TxOut)
    /\ ret.cause = "doge TxOut index err"

----------------------------------------------------------------------------
(* checkConnectBlock applied to two blocks in a row: the block at
   EntangleHeight, and on top of it the block at EntangleHeight + 1 whose
   previous block is the first one *)

\* The coinbases of the two blocks: one to four outputs, at the values the
\* accounting expects
ChainDraws == [d0 |-> {0}, over |-> FALSE, d1 |-> {0}, d2 |-> {0},
               d4 |-> {0}, d5 |-> {0}, n |-> 1..4]

ChainEnv == [GoodEnv EXCEPT !.extract = GoodExtract]

\* The utxo set under a block at height h on top of pre. Inputs 1 and 2 of
\* its coinbase reference outputs 1 and 2 of the previous coinbase where it
\* has them, and otherwise another unspent output of height h - 1, which
\* checkMergeTxInCoinbase accepts as well
ChainCaches(pre, h) ==
    { [o \in DOMAIN c |->
          IF o > MaxOutPoint /\ Len(pre[1].TxOut) < o - MaxOutPoint
          THEN Entry(pre[1].TxOut[1].Value, h - 1, TRUE, FALSE, FALSE)
          ELSE c[o]] : c \in UtxoCaches(pre, h) }

\* The blocks offered at height h on top of pre: a coinbase alone or with
\* one spend
ChainBlocks(h, pre) ==
    UNION { { <<cb>> \o txs :
                cb \in CoinbaseDraws(h, CalcBlockSubsidy(h), pre, txs, "asc",
                                     ChainDraws) } :
            txs \in SeqsUpTo({PlainTx(1)}, 1) }

ChainInit ==
    /\ op = "chain"
    /\ pc = "first"
    /\ height = EntangleHeight
    /\ subsidy = CalcBlockSubsidy(height)
    /\ preBlock \in ConnectPreBlocks
    /\ block \in ChainBlocks(height, preBlock)
    /\ \E cache \in ChainCaches(preBlock, height) :
          env = [ChainEnv EXCEPT !.cache = cache]
    /\ view \in GivenViews
    /\ view0 = view
    /\ stxos = <<>>
    /\ stxos0 = <<>>
    /\ ret = Returned(Nil, "call", view, stxos)

\* The block at EntangleHeight goes through checkConnectBlock; when it is
\* accepted it becomes the previous block of the block offered next
ConnectEntangleBlock ==
    /\ op = "chain"
    /\ pc = "first"
    /\ \E r \in {checkConnectBlock(height, block, preBlock, view, stxos,
                                     env.cache, env)} :
          /\ ret' = r
          /\ IF r.err = Nil /\ r.step = "end"
             THEN /\ pc' = "second"
                  /\ height' = height + 1
                  /\ subsidy' = CalcBlockSubsidy(height + 1)
                  /\ preBlock' = block
                  /\ block' \in ChainBlocks(height + 1, block)
                  /\ \E cache \in ChainCaches(block, height + 1) :
                        env' = [ChainEnv EXCEPT !.cache = cache]
                  /\ view' = <<>>
                  /\ view0' = <<>>
                  /\ stxos' = <<>>
                  /\ stxos0' = <<>>
             ELSE /\ pc' = "refused"
                  /\ view' = r.view
                  /\ stxos' = r.stxos
                  /\ UNCHANGED <<height, subsidy, preBlock, block, env, view0, stxos0>>
    /\ UNCHANGED op

\* The block at EntangleHeight + 1 goes through checkConnectBlock
ConnectNextBlock ==
    /\ op = "chain"
    /\ pc = "second"
    /\ pc' = "done"
    /\ \E r \in {checkConnectBlock(height, block, preBlock, view, stxos,
                                     env.cache, env)} :
          /\ ret' = r
          /\ view' = r.view
          /\ stxos' = r.stxos
    /\ UNCHANGED <<op, height, block, preBlock, subsidy, view0, stxos0, env>>

ChainNext == ConnectEntangleBlock \/ ConnectNextBlock

SpecChain == ChainInit /\ [][ChainNext]_vars

\* The second block got as far as checkBlockSubsidy
ChainReachedSubsidy ==
    /\ op = "chain"
    /\ pc = "done"
    /\ ret.step \in {"subsidy", "csv", "scripts", "end"}

\* C29: whenever checkConnectBlock reaches checkBlockSubsidy above
\* EntangleHeight, the previous block's coinbase, accepted by the
\* validator itself, has at least 3 outputs, so that reading its out[1]
\* and out[2] is in range.
C29_PreCoinbaseHasPools ==
    (ChainReachedSubsidy /\ height > EntangleHeight) =>
        /\ Len(preBlock[1].TxOut) >= 3
        /\ ret.err # "panic"

\* A block at EntangleHeight whose coinbase has one output was accepted
C29_ShortCoinbaseAccepted ==
    /\ op = "chain"
    /\ pc = "second"
    /\ ret.err = Nil
    /\ ret.step = "end"
    /\ Len(preBlock[1].TxOut) = 1

\* The block on top of it: getPoolAmountFromPreBlock reads past the
\* outputs of the previous coinbase
C29_NextBlockCrashes ==
    /\ ChainReachedSubsidy
    /\ Len(preBlock[1].TxOut) < 3
    /\ ret.step = "subsidy"
    /\ ret.err = "panic"

\* On a previous coinbase of three outputs the block on top is accepted
C29_FullCoinbaseCarries ==
    /\ ChainReachedSubsidy
    /\ Len(preBlock[1].TxOut) >= 3
    /\ ret.step = "end"
    /\ ret.err = Nil

----------------------------------------------------------------------------
(* Compact numbers *)

\* The width of a hash and of a target, in place of 256
HashBits == 28

\* 1 shifted left by the hash width
oneLsh256 == 2 ^ HashBits

Abs(n) == IF n < 0 THEN 0 - n ELSE n

\* len(n.Bytes()) for n >= 0
RECURSIVE ByteLen(_)
ByteLen(n) == IF n = 0 THEN 0 ELSE 1 + ByteLen(n \div 256)

CompactToBig(compact) ==
    LET mantissa   == compact % (2 ^ 23)
        isNegative == (compact \div (2 ^ 23)) % 2 = 1
        exponent   == compact \div (2 ^ 24)
        bn == IF exponent <= 3
              THEN mantissa \div (2 ^ (8 * (3 - exponent)))
              ELSE mantissa * (2 ^ (8 * (exponent - 3)))
    IN  IF isNegative THEN 0 - bn ELSE bn

\* A mantissa that never counts as having the sign bit set
SignBitSet_Never(mantissa) == FALSE

\* mantissa & 0x00800000 != 0
SignBitSet(mantissa) == (mantissa \div (2 ^ 23)) % 2 = 1

\* uint32(exponent<<24) | mantissa, for a mantissa of at most 25 bits
PackCompact(exponent, mantissa) ==
    LET carry == mantissa \div (2 ^ 24)
        high  == IF carry = 1 /\ exponent % 2 = 0 THEN exponent + 1 ELSE exponent
    IN  high * (2 ^ 24) + (mantissa % (2 ^ 24))

BigToCompact(n) ==
    IF n = 0 THEN 0
    ELSE LET exponent == ByteLen(Abs(n))
             shifted  == IF exponent <= 3
                         THEN Abs(n) * (2 ^ (8 * (3 - exponent)))
                         ELSE Abs(n \div (2 ^ (8 * (exponent - 3))))
             mantissa == IF SignBitSet(shifted) THEN shifted \div 256 ELSE shifted
             exp2     == IF SignBitSet(shifted) THEN exponent + 1 ELSE exponent
             compact  == PackCompact(exp2, mantissa)
         IN  IF n < 0 /\ ~SignBitSet(compact) THEN compact + 2 ^ 23 ELSE compact

\* A work value that grows with the target
CalcWorkOf_Rising(difficultyNum) == difficultyNum + 1

\* (1 << 256) / (difficultyNum + 1)
CalcWorkOf(difficultyNum) == oneLsh256 \div (difficultyNum + 1)

CalcWork(bits) ==
    LET difficultyNum == CompactToBig(bits)
    IN  IF difficultyNum <= 0 THEN 0 ELSE CalcWorkOf(difficultyNum)

----------------------------------------------------------------------------
(* BigToCompact and CompactToBig applied to a number *)

MaxSmallNumber == 300
PowerSpread == 2

\* Small numbers, and numbers around every power of two up to 31 bits
CodecNumbers ==
    (1..MaxSmallNumber)
    \cup {2 ^ k + d : k \in 8..30, d \in (0 - PowerSpread)..PowerSpread}
    \cup {2 ^ k + 2 ^ j : k \in 23..30, j \in 0..22}
    \cup {2147483647 - d : d \in 0..PowerSpread}

CodecInit ==
    /\ op = "codec"
    /\ pc = "encode"
    /\ env \in [n : CodecNumbers]
    /\ height = 0
    /\ subsidy = 0
    /\ block = <<>>
    /\ preBlock = <<>>
    /\ view = <<>>
    /\ view0 = view
    /\ stxos = <<>>
    /\ stxos0 = <<>>
    /\ ret = [compact |-> 0, big |-> 0]

CallBigToCompact ==
    /\ op = "codec"
    /\ pc = "encode"
    /\ pc' = "decode"
    /\ ret' = [ret EXCEPT !.compact = BigToCompact(env.n)]
    /\ UNCHANGED <<op, height, block, preBlock, subsidy, view, stxos, view0, stxos0, env>>

CallCompactToBig ==
    /\ op = "codec"
    /\ pc = "decode"
    /\ pc' = "done"
    /\ ret' = [ret EXCEPT !.big = CompactToBig(ret.compact)]
    /\ UNCHANGED <<op, height, block, preBlock, subsidy, view, stxos, view0, stxos0, env>>

CodecNext == CallBigToCompact \/ CallCompactToBig

SpecCodec == CodecInit /\ [][CodecNext]_vars

CodecDone == op = "codec" /\ pc = "done"

\* The number of low bytes dropped so that what is left fits 23 bits
RECURSIVE DroppedBytes(_)
DroppedBytes(n) == IF n < 2 ^ 23 THEN 0 ELSE 1 + DroppedBytes(n \div 256)

\* n with its dropped low bytes cleared
Truncated(n) == (n \div (256 ^ DroppedBytes(n))) * (256 ^ DroppedBytes(n))

\* C17: decoding the encoding of a positive number gives the number cut to
\* a mantissa of 23 bits: positive, never above the number, and the number
\* itself below 2^23.
C17_RoundTrip ==
    CodecDone =>
        /\ ret.big = Truncated(env.n)
        /\ ret.big > 0
        /\ ret.big <= env.n
        /\ env.n < 2 ^ 23 => ret.big = env.n

\* A number of 24 bits whose top byte sets the sign bit comes back with its
\* low byte cleared
C17_Witness ==
    /\ CodecDone
    /\ env.n >= 2 ^ 23
    /\ env.n < 2 ^ 24
    /\ ret.big < env.n
    /\ ret.big = (env.n \div 256) * 256

\* A number below 2^23 comes back unchanged
C17_ExactReached ==
    /\ CodecDone
    /\ env.n < 2 ^ 23
    /\ env.n > MaxSmallNumber
    /\ ret.big = env.n

----------------------------------------------------------------------------
(* CalcWork applied to two compact values *)

\* Targets whose encodings are compared: small ones, ones around half the
\* hash width, ones just below and above the hash width
WorkTargets ==
    (1..PowerSpread + 6)
    \cup {2 ^ k + d : k \in 8..(HashBits \div 2 + 1), d \in {-1, 0, 1}}
    \cup {2 ^ k - d * 256 : k \in (HashBits - 1)..(HashBits + 1), d \in 0..PowerSpread}

\* Their encodings, and encodings BigToCompact does not produce: zero, a
\* negative number, an exponent below 3
CompactValues ==
    {BigToCompact(t) : t \in WorkTargets}
    \cup {0, BigToCompact(-1), BigToCompact(-70000), 2 ^ 24 + 4660 * 256, 2 * 2 ^ 24 + 4660 * 256}

WorkInit ==
    /\ op = "work"
    /\ pc = "call"
    /\ env \in [b1 : CompactValues, b2 : CompactValues]
    /\ height = 0
    /\ subsidy = 0
    /\ block = <<>>
    /\ preBlock = <<>>
    /\ view = <<>>
    /\ view0 = view
    /\ stxos = <<>>
    /\ stxos0 = <<>>
    /\ ret = [w1 |-> 0, w2 |-> 0]

CallCalcWork ==
    /\ op = "work"
    /\ pc = "call"
    /\ pc' = "done"
    /\ ret' = [w1 |-> CalcWork(env.b1), w2 |-> CalcWork(env.b2)]
    /\ UNCHANGED <<op, height, block, preBlock, subsidy, view, stxos, view0, stxos0, env>>

WorkNext == CallCalcWork

SpecWork == WorkInit /\ [][WorkNext]_vars

WorkDone == op = "work" /\ pc = "done"

Target1 == CompactToBig(env.b1)
Target2 == CompactToBig(env.b2)

\* C18: the work of a compact value is the hash range divided by the
\* target plus one, 0 for a target that is not positive; of two positive
\* targets the lower one never has the lower work, and has the higher work
\* when the larger target is below the square root of the hash range.
C18_WorkNotLower ==
    WorkDone =>
        /\ ret.w1 = IF Target1 > 0 THEN (2 ^ HashBits) \div (Target1 + 1) ELSE 0
        /\ (0 < Target1 /\ Target1 < Target2) => ret.w1 >= ret.w2
        /\ (0 < Target1 /\ Target1 < Target2 /\ Target2 < 2 ^ (HashBits \div 2))
               => ret.w1 > ret.w2

\* Two different targets below half the hash width, with different work
C18_Witness ==
    /\ WorkDone
    /\ 0 < Target1
    /\ Target1 < Target2
    /\ Target2 < 2 ^ (HashBits \div 2)
    /\ ret.w1 > ret.w2
    /\ ret.w2 > 0

\* C18 as stated: of two positive targets the lower one has the higher work
C18_WorkStrictlyHigher ==
    (WorkDone /\ 0 < Target1 /\ Target1 < Target2) => ret.w1 > ret.w2

\* Two different positive targets with the same work above 0
C18_SameWork ==
    /\ WorkDone
    /\ 0 < Target1
    /\ Target1 < Target2
    /\ ret.w1 = ret.w2
    /\ ret.w1 > 0

----------------------------------------------------------------------------
(* calcNextRequiredDifficulty *)

big30 == 30
bigMinus99 == -99
DifficultyBoundDivisor == 128

\* chainParams.PowLimit and chainParams.PowLimitBits
PowLimit == 2 ^ (HashBits - 4) - 1
PowLimitBits == BigToCompact(PowLimit)

\* A block node: the fields calcNextRequiredDifficulty reads, and the
\* work sum of its parent
BlockNode(h, b, t, w, pw) ==
    [isNil |-> FALSE, height |-> h, bits |-> b, timestamp |-> t, workSum |-> w,
     parentWorkSum |-> pw]

\* The nil block node
NilNode ==
    [isNil |-> TRUE, height |-> 0, bits |-> 0, timestamp |-> 0, workSum |-> 0,
     parentWorkSum |-> 0]

\* 1 - delta // 9, without a lower limit
AdjustmentOf_PerNineUnclamped(delta) == 1 - (delta \div 9)

\* max(1 - delta // 30, -99)
AdjustmentOf(delta) ==
    LET x == 1 - (delta \div big30)
    IN  IF x < bigMinus99 THEN bigMinus99 ELSE x

\* The new difficulty without the lower limit of -99
newDifficultyOf_Unclamped(difficulty, delta) ==
    difficulty + ((difficulty * (1 - (delta \div big30))) \div DifficultyBoundDivisor)

\* The difficulty after a block delta seconds after a parent of the given
\* difficulty
newDifficultyOf(difficulty, delta) ==
    difficulty + ((difficulty * AdjustmentOf(delta)) \div DifficultyBoundDivisor)

\* A target that is never clipped
ClipTarget_Never(newTarget) == newTarget

\* The target clipped to the proof of work limit
ClipTarget(newTarget) == IF newTarget > PowLimit THEN PowLimit ELSE newTarget

\* The result: the bits, nil or a panic, and the newDifficulty computed on
\* the way (0 when none was)
DifficultyResult(b, e, d) == [bits |-> b, err |-> e, newDifficulty |-> d]

calcNextRequiredDifficulty(lastNode, newBlockTime, NoDifficultyAdjustment) ==
    IF lastNode.isNil THEN DifficultyResult(PowLimitBits, Nil, 0)
    ELSE IF NoDifficultyAdjustment THEN DifficultyResult(lastNode.bits, Nil, 0)
    ELSE LET difficulty == IF lastNode.height # 0
                           THEN lastNode.workSum - lastNode.parentWorkSum
                           ELSE lastNode.workSum
             newDifficulty == newDifficultyOf(difficulty, newBlockTime - lastNode.timestamp)
         IN  IF newDifficulty = 0
             THEN DifficultyResult(0, "panic", newDifficulty)
             ELSE DifficultyResult(
                      BigToCompact(ClipTarget((oneLsh256 - newDifficulty) \div newDifficulty)),
                      Nil, newDifficulty)

----------------------------------------------------------------------------
(* calcNextRequiredDifficulty applied to a parent and a block time *)

MaxDifficulty == 140
MaxDifficultyBits == 20
ParentTime == 1000
EarlySeconds == 61
LateSeconds == 121
ClampMargin == 45

\* The work of the easiest target a header may carry
MinDifficulty == CalcWork(PowLimitBits)

\* The difficulties of a parent: every one from 1 up to MaxDifficulty, and
\* powers of two above
Difficulties ==
    (1..MaxDifficulty) \cup {2 ^ k : k \in 8..MaxDifficultyBits}

\* Seconds between parent and block: around 0 and 30, and around the point
\* where the -99 limit sets in
ClampStart == big30 * (1 - bigMinus99)
Deltas ==
    ((0 - EarlySeconds)..LateSeconds)
    \cup ((ClampStart - ClampMargin)..(ClampStart + ClampMargin))

\* Parents at height 0 and above it
ParentNodes(diffs, bitss) ==
    {BlockNode(0, b, ParentTime, d, 0) : d \in diffs, b \in bitss}
    \cup {BlockNode(1, b, ParentTime, d + 5, 5) : d \in diffs, b \in bitss}

DifficultyEnvs ==
    {[lastNode |-> n, newBlockTime |-> ParentTime + dt, noAdjust |-> FALSE] :
        n \in ParentNodes(Difficulties, {PowLimitBits}), dt \in Deltas}
    \cup {[lastNode |-> n, newBlockTime |-> ParentTime + dt, noAdjust |-> TRUE] :
        n \in ParentNodes({MinDifficulty, 2 ^ 8}, {PowLimitBits, BigToCompact(2 ^ 8)}),
        dt \in {0, 30, ClampStart}}
    \cup {[lastNode |-> NilNode, newBlockTime |-> ParentTime + dt, noAdjust |-> a] :
        dt \in {0, 30}, a \in BOOLEAN}

DifficultyInit ==
    /\ op = "difficulty"
    /\ pc = "call"
    /\ env \in DifficultyEnvs
    /\ height = 0
    /\ subsidy = 0
    /\ block = <<>>
    /\ preBlock = <<>>
    /\ view = <<>>
    /\ view0 = view
    /\ stxos = <<>>
    /\ stxos0 = <<>>
    /\ ret = DifficultyResult(0, Nil, 0)

CallCalcNextRequiredDifficulty ==
    /\ op = "difficulty"
    /\ pc = "call"
    /\ pc' = "done"
    /\ ret' = calcNextRequiredDifficulty(env.lastNode, env.newBlockTime, env.noAdjust)
    /\ UNCHANGED <<op, height, block, preBlock, subsidy, view, stxos, view0, stxos0, env>>

DifficultyNext == CallCalcNextRequiredDifficulty

SpecDifficulty == DifficultyInit /\ [][DifficultyNext]_vars

DifficultyDone == op = "difficulty" /\ pc = "done"

\* The call adjusted the difficulty of a parent
Adjusted == DifficultyDone /\ ~env.lastNode.isNil /\ ~env.noAdjust

\* parent.work_sum - grandparent.work_sum, or parent.work_sum at height 0
ParentDiff ==
    IF env.lastNode.height = 0 THEN env.lastNode.workSum
    ELSE env.lastNode.workSum - env.lastNode.parentWorkSum

BlockDelta == env.newBlockTime - env.lastNode.timestamp

LowestDifficulty == ParentDiff + ((ParentDiff * bigMinus99) \div DifficultyBoundDivisor)

\* The new difficulty does not grow with the delta, falls below the parent's
\* from 60 seconds on, never falls below the -99 limit and is the same for
\* all deltas at the limit
FallsWithDelta ==
    /\ \A dt \in Deltas :
          dt > BlockDelta => newDifficultyOf(ParentDiff, dt) <= ret.newDifficulty
    /\ BlockDelta >= 2 * big30 => ret.newDifficulty < ParentDiff
    /\ ret.newDifficulty >= LowestDifficulty
    /\ 1 - (BlockDelta \div 30) <= -99 => ret.newDifficulty = LowestDifficulty

\* C15: for a parent difficulty of at least DifficultyBoundDivisor the new
\* difficulty rises above it for deltas below 30 seconds (for a smaller one
\* it does not fall), and for every parent difficulty it does not grow with
\* the delta, falls for large deltas and is bounded by the -99 limit.
C15_DifficultyFallsWithDelta ==
    Adjusted =>
        /\ FallsWithDelta
        /\ (BlockDelta < 30 /\ ParentDiff >= DifficultyBoundDivisor)
               => ret.newDifficulty > ParentDiff
        /\ BlockDelta < 30 => ret.newDifficulty >= ParentDiff

\* A parent difficulty above the divisor, raised by a block after 10 seconds
C15_Witness ==
    /\ Adjusted
    /\ BlockDelta = 10
    /\ ParentDiff >= DifficultyBoundDivisor
    /\ ret.newDifficulty > ParentDiff
    /\ ret.newDifficulty = ParentDiff + ParentDiff \div DifficultyBoundDivisor

\* A block at the -99 limit: the largest fall
C15_ClampReached ==
    /\ Adjusted
    /\ BlockDelta >= ClampStart + big30
    /\ ret.newDifficulty = LowestDifficulty
    /\ ret.newDifficulty < ParentDiff

\* C15 as stated: for every parent difficulty above 0 the new difficulty
\* rises above it for deltas below 30 seconds
C15_RisesForEveryDifficulty ==
    Adjusted =>
        /\ FallsWithDelta
        /\ (BlockDelta < 30 /\ ParentDiff > 0) => ret.newDifficulty > ParentDiff

\* A parent difficulty below the divisor, unchanged by a block after 10
\* seconds
C15_SmallDifficultyStays ==
    /\ Adjusted
    /\ BlockDelta = 10
    /\ ParentDiff > 0
    /\ ParentDiff < DifficultyBoundDivisor
    /\ ret.newDifficulty = ParentDiff

\* C28: calcNextRequiredDifficulty never divides by zero: for every parent
\* difficulty of at least 1 and every block time the new difficulty is at
\* least 1 when the new target is computed.
C28_NoDivisionByZero ==
    (Adjusted /\ ParentDiff >= 1) =>
        /\ ret.newDifficulty >= 1
        /\ ret.err # "panic"

\* The parent difficulties that the limit of -99 brings to 0
C28_ClampedToZero ==
    /\ Adjusted
    /\ ParentDiff \in 1..4
    /\ BlockDelta >= ClampStart
    /\ ret.newDifficulty = 0
    /\ ret.err = "panic"

\* A parent difficulty of 1 and a block one minute after its parent
C28_OneMinuteToZero ==
    /\ Adjusted
    /\ ParentDiff = 1
    /\ BlockDelta = 2 * big30
    /\ ret.newDifficulty = 0
    /\ ret.err = "panic"

\* From 5 on no parent difficulty of the runs comes to 0
C28_FromFiveOn ==
    (Adjusted /\ ParentDiff >= 5) => (ret.newDifficulty >= 1 /\ ret.err = Nil)

\* (2^256 - newD) / newD, the target before it is clipped
UnclippedTarget ==
    IF ret.newDifficulty = 0 THEN 0
    ELSE (2 ^ HashBits - ret.newDifficulty) \div ret.newDifficulty

\* C16: the bits returned decode to a target of at most PowLimit; without
\* difficulty adjustment they are the parent's bits, and for a nil parent
\* they are PowLimitBits.
C16_TargetWithinLimit ==
    (DifficultyDone /\ ret.err = Nil) =>
        /\ CompactToBig(ret.bits) <= PowLimit
        /\ env.lastNode.isNil => ret.bits = PowLimitBits
        /\ (~env.lastNode.isNil /\ env.noAdjust) => ret.bits = env.lastNode.bits
        /\ (Adjusted /\ UnclippedTarget <= PowLimit)
               => ret.bits = BigToCompact(UnclippedTarget)

\* A new difficulty so low that its target is above PowLimit and is clipped
C16_Witness ==
    /\ Adjusted
    /\ ret.err = Nil
    /\ UnclippedTarget > PowLimit
    /\ ret.bits = PowLimitBits
    /\ CompactToBig(ret.bits) <= PowLimit

\* A target below PowLimit is returned as it is
C16_UnclippedReached ==
    /\ Adjusted
    /\ UnclippedTarget < PowLimit
    /\ UnclippedTarget >= 2 ^ 23
    /\ CompactToBig(ret.bits) > 0
    /\ CompactToBig(ret.bits) < UnclippedTarget

\* Without adjustment a parent's bits other than PowLimitBits come back, at
\* a delta that would have changed them
C16_ParentBitsReturned ==
    /\ DifficultyDone
    /\ ~env.lastNode.isNil
    /\ env.noAdjust
    /\ BlockDelta = ClampStart
    /\ ret.bits = env.lastNode.bits
    /\ ret.bits # PowLimitBits

\* A nil parent under both kinds of network
C16_NilParentReached ==
    /\ DifficultyDone
    /\ env.lastNode.isNil
    /\ env.noAdjust
    /\ ret.bits = PowLimitBits

----------------------------------------------------------------------------
(* CheckTransactionSanity *)

MinCoinbaseScriptLen == 2
MaxCoinbaseScriptLen == 100
MaxTransactionSize == 1000000
MinTransactionSize == 100
MaxTransactionSigOps == 20000

\* A transaction with what the sanity checks read besides inputs and
\* outputs: its sigop count, its serialized size and its hash
SanityTx(ins, outs, sigOps, size, hash) ==
    [TxIn |-> ins, TxOut |-> outs, SigOps |-> sigOps, SerializeSize |-> size,
     Hash |-> hash]

isNullOutpoint(outpoint) == outpoint = NullOutPoint

\* IsCoinBaseTx indexes TxIn[0] through ExtractCoinbaseHeight before any
\* test of the number of inputs
IsCoinBasePanics(t) == Len(t.TxIn) = 0

\* IsCoinBaseTx, the same tests as isCoinBaseInParam with the main network's
\* EntangleHeight
IsCoinBaseTx(t) == isCoinBaseInParam(t)

\* The output loop from output i on with the running totalSatoshi (the
\* int64 overflow test cannot fire below MaxSatoshi)
RECURSIVE OutputsOutOfRange(_, _, _)
OutputsOutOfRange(outs, i, totalSatoshi) ==
    IF i > Len(outs) THEN FALSE
    ELSE LET satoshi == outs[i].Value IN
         IF satoshi < 0 \/ satoshi > MaxSatoshi THEN TRUE
         ELSE IF totalSatoshi + satoshi > MaxSatoshi THEN TRUE
         ELSE OutputsOutOfRange(outs, i + 1, totalSatoshi + satoshi)

\* Only an input equal to the one just before it counts as a duplicate
HasDuplicateInputs_AdjacentOnly(ins) ==
    \E i \in 1..Len(ins) - 1 : ins[i].PreviousOutPoint = ins[i + 1].PreviousOutPoint

\* The existingTxOut loop: some input repeats the outpoint of an earlier one
HasDuplicateInputs(ins) ==
    \E i, j \in 1..Len(ins) :
        i < j /\ ins[i].PreviousOutPoint = ins[j].PreviousOutPoint

CheckTransactionSanity(t, magneticAnomalyActive) ==
    IF Len(t.TxIn) = 0 THEN "ErrNoTxInputs"
    ELSE IF Len(t.TxOut) = 0 THEN "ErrNoTxOutputs"
    ELSE IF t.SerializeSize > MaxTransactionSize THEN "ErrTxTooBig"
    ELSE IF magneticAnomalyActive /\ t.SerializeSize < MinTransactionSize
         THEN "ErrTxTooSmall"
    ELSE IF CountSigOps(t) > MaxTransactionSigOps THEN "ErrTxTooManySigOps"
    ELSE IF OutputsOutOfRange(t.TxOut, 1, 0) THEN "ErrBadTxOutValue"
    ELSE IF HasDuplicateInputs(t.TxIn) THEN "ErrDuplicateTxInputs"
    ELSE IF IsCoinBaseTx(t)
         THEN LET slen == Len(t.TxIn[1].SignatureScript) IN
              IF slen < MinCoinbaseScriptLen \/ slen > MaxCoinbaseScriptLen
              THEN "ErrBadCoinbaseScriptLen"
              ELSE Nil
    ELSE IF \E i \in 1..Len(t.TxIn) : isNullOutpoint(t.TxIn[i].PreviousOutPoint)
         THEN "ErrBadTxInput"
    ELSE Nil

----------------------------------------------------------------------------
(* CheckTransactionSanity applied to a transaction *)

MaxSanityInputs == 3

\* Signature scripts of a first input: none, the heights below and at
\* EntangleHeight, a single byte
SanityScripts ==
    { <<>>, HeightScript(1), HeightScript(EntangleHeight), <<OP_1>> }

\* Up to MaxSanityInputs inputs over the null outpoint and two others
SanityInputs ==
    { [i \in 1..Len(os) |-> TxInOf(os[i], IF i = 1 THEN sc ELSE <<>>)] :
        os \in SeqsUpTo({NullOutPoint, 1, 2}, MaxSanityInputs), sc \in SanityScripts }

\* No output, outputs in range, a negative one, one above MaxSatoshi, a sum
\* above MaxSatoshi
SanityOutputs ==
    { <<>>, <<TxOutOf(5)>>, <<TxOutOf(5), TxOutOf(0)>>, <<TxOutOf(-1)>>,
      <<TxOutOf(MaxSatoshi + 1)>>, <<TxOutOf(MaxSatoshi), TxOutOf(1)>> }

SanitySizes == {MinTransactionSize - 1, MinTransactionSize, MaxTransactionSize + 1}
SanitySigOps == {0, MaxTransactionSigOps + 1}

SanityTxInit ==
    /\ op = "txsanity"
    /\ pc = "call"
    /\ \E ins \in SanityInputs, outs \in SanityOutputs, n \in SanitySigOps,
          size \in SanitySizes :
          block = <<SanityTx(ins, outs, n, size, 0)>>
    /\ env \in [magneticAnomaly : BOOLEAN]
    /\ height = 0
    /\ subsidy = 0
    /\ preBlock = <<>>
    /\ view = <<>>
    /\ view0 = view
    /\ stxos = <<>>
    /\ stxos0 = <<>>
    /\ ret = Nil

CallCheckTransactionSanity ==
    /\ op = "txsanity"
    /\ pc = "call"
    /\ pc' = "done"
    /\ ret' = CheckTransactionSanity(block[1], env.magneticAnomaly)
    /\ UNCHANGED <<op, height, block, preBlock, subsidy, view, stxos, view0, stxos0, env>>

SanityTxNext == CallCheckTransactionSanity

SpecTxSanity == SanityTxInit /\ [][SanityTxNext]_vars

TxSanityDone == op = "txsanity" /\ pc = "done"

\* Two inputs of the transaction name the same previous outpoint
TwoInputsSameOutPoint ==
    \E i, j \in 1..Len(block[1].TxIn) :
        i # j /\ block[1].TxIn[i].PreviousOutPoint = block[1].TxIn[j].PreviousOutPoint

\* The checks CheckTransactionSanity makes before it looks for duplicates
EarlierChecksPass ==
    /\ Len(block[1].TxOut) > 0
    /\ block[1].SerializeSize <= MaxTransactionSize
    /\ env.magneticAnomaly => block[1].SerializeSize >= MinTransactionSize
    /\ block[1].SigOps <= MaxTransactionSigOps
    /\ \A i \in 1..Len(block[1].TxOut) :
          block[1].TxOut[i].Value >= 0 /\ block[1].TxOut[i].Value <= MaxSatoshi
    /\ SumValues(block[1].TxOut) <= MaxSatoshi

\* C20: a transaction with two inputs of the same previous outpoint is
\* always refused, with DuplicateTxInputs when it has outputs and its size,
\* sigop count and output values are in range, coinbase or not; and
\* DuplicateTxInputs is returned for no other transaction.
C20_DuplicateInputsRefused ==
    TxSanityDone =>
        /\ TwoInputsSameOutPoint => ret # Nil
        /\ (TwoInputsSameOutPoint /\ EarlierChecksPass) => ret = "ErrDuplicateTxInputs"
        /\ ret = "ErrDuplicateTxInputs" => TwoInputsSameOutPoint

\* A coinbase with its first and third input the same, refused as duplicate
C20_Witness ==
    /\ TxSanityDone
    /\ Len(block[1].TxIn) = 3
    /\ block[1].TxIn[1].PreviousOutPoint = block[1].TxIn[3].PreviousOutPoint
    /\ block[1].TxIn[1].PreviousOutPoint # block[1].TxIn[2].PreviousOutPoint
    /\ IsCoinBaseTx(block[1])
    /\ ret = "ErrDuplicateTxInputs"

\* C20 as stated: DuplicateTxInputs for every transaction with two inputs
\* of the same previous outpoint, whatever its other fields
C20_DuplicateWhateverElse ==
    (TxSanityDone /\ TwoInputsSameOutPoint) => ret = "ErrDuplicateTxInputs"

\* A transaction with duplicate inputs and no outputs is refused for its
\* outputs
C20_OtherErrorFirst ==
    /\ TxSanityDone
    /\ TwoInputsSameOutPoint
    /\ Len(block[1].TxOut) = 0
    /\ ret = "ErrNoTxOutputs"

----------------------------------------------------------------------------
(* checkBlockSanity *)

\* The loop over transactions[1:] that looks for a second coinbase, from
\* position i on
RECURSIVE SecondCoinbase(_, _)
SecondCoinbase(transactions, i) ==
    IF i > Len(transactions) THEN Nil
    ELSE IF IsCoinBasePanics(transactions[i]) THEN "panic"
    ELSE IF IsCoinBaseTx(transactions[i]) THEN "ErrMultipleCoinbases"
    ELSE SecondCoinbase(transactions, i + 1)

\* Only a hash below the one before it is out of order
OutOfOrder_EqualAllowed(lastTxid, hash) == lastTxid > hash

\* lastTxid.Compare(tx.Hash()) >= 0
OutOfOrder(lastTxid, hash) == lastTxid >= hash

\* The loop that tests the order and the sanity of each transaction, from
\* position i on; the position after the coinbase is the first to have a
\* predecessor that counts
RECURSIVE SanityLoop(_, _, _, _)
SanityLoop(transactions, i, lastTxid, magneticAnomaly) ==
    IF i > Len(transactions) THEN Nil
    ELSE IF magneticAnomaly /\ i - 1 > 1 /\ OutOfOrder(lastTxid, transactions[i].Hash)
         THEN "ErrInvalidTxOrder"
    ELSE LET err == CheckTransactionSanity(transactions[i], magneticAnomaly) IN
         IF err # Nil THEN err
         ELSE SanityLoop(transactions, i + 1, transactions[i].Hash, magneticAnomaly)

\* checkBlockSanity; headerErr is what checkBlockHeaderSanity returned and
\* merkleOk whether the header's merkle root is the one calculated
checkBlockSanity(transactions, headerErr, merkleOk, magneticAnomaly) ==
    IF headerErr # Nil THEN headerErr
    ELSE IF Len(transactions) = 0 THEN "ErrNoTransactions"
    ELSE IF IsCoinBasePanics(transactions[1]) THEN "panic"
    ELSE IF ~IsCoinBaseTx(transactions[1]) THEN "ErrFirstTxNotCoinbase"
    ELSE IF SecondCoinbase(transactions, 2) # Nil THEN SecondCoinbase(transactions, 2)
    ELSE IF SanityLoop(transactions, 1, 0, magneticAnomaly) # Nil
         THEN SanityLoop(transactions, 1, 0, magneticAnomaly)
    ELSE IF ~merkleOk THEN "ErrBadMerkleRoot"
    ELSE IF \E i, j \in 1..Len(transactions) :
                i < j /\ transactions[i].Hash = transactions[j].Hash
         THEN "ErrDuplicateTx"
    ELSE Nil

----------------------------------------------------------------------------
(* checkBlockSanity applied to a block *)

MaxSanityTxs == 3
MaxTxHash == 3
CoinbaseHashes == {0, MaxTxHash + 6}

\* A coinbase below EntangleHeight
SanityCoinbase(hash) ==
    SanityTx(<<TxInOf(NullOutPoint, HeightScript(1))>>, <<TxOutOf(5)>>, 0,
             2 * MinTransactionSize, hash)

\* Transactions after the coinbase: a sane spend and one without outputs,
\* under every hash
SanityTxKinds ==
    { SanityTx(<<TxInOf(1, <<>>)>>, outs, 0, 2 * MinTransactionSize, hash) :
        outs \in { <<TxOutOf(5)>>, <<>> }, hash \in 1..MaxTxHash }

\* A transaction without inputs
InputlessTx(hash) == SanityTx(<<>>, <<TxOutOf(5)>>, 0, 2 * MinTransactionSize, hash)

\* Blocks: a coinbase and up to MaxSanityTxs transactions, no transaction,
\* no coinbase in front, a second coinbase, a transaction without inputs
\* in front or after the coinbase
SanityBlocks ==
    { <<SanityCoinbase(c)>> \o txs :
        c \in CoinbaseHashes, txs \in SeqsUpTo(SanityTxKinds, MaxSanityTxs) }
    \cup { <<>> }
    \cup { <<t, u>> : t, u \in { x \in SanityTxKinds : x.Hash = 1 /\ x.TxOut # <<>> } }
    \cup { <<SanityCoinbase(0), t, SanityCoinbase(1)>> :
             t \in { x \in SanityTxKinds : x.Hash = MaxTxHash } }
    \cup { <<InputlessTx(1)>>, <<SanityCoinbase(0), InputlessTx(1)>> }

BlockSanityInit ==
    /\ op = "blocksanity"
    /\ pc = "call"
    /\ block \in SanityBlocks
    /\ env \in [headerErr : {Nil, "ErrHighHash"}, merkleOk : BOOLEAN,
                magneticAnomaly : BOOLEAN]
    /\ height = 0
    /\ subsidy = 0
    /\ preBlock = <<>>
    /\ view = <<>>
    /\ view0 = view
    /\ stxos = <<>>
    /\ stxos0 = <<>>
    /\ ret = Nil

CallCheckBlockSanity ==
    /\ op = "blocksanity"
    /\ pc = "call"
    /\ pc' = "done"
    /\ ret' = checkBlockSanity(block, env.headerErr, env.merkleOk, env.magneticAnomaly)
    /\ UNCHANGED <<op, height, block, preBlock, subsidy, view, stxos, view0, stxos0, env>>

BlockSanityNext == CallCheckBlockSanity

SpecBlockSanity == BlockSanityInit /\ [][BlockSanityNext]_vars

BlockSanityDone == op = "blocksanity" /\ pc = "done"

\* The positions after the coinbase whose hash is not above the hash of the
\* transaction before them, the coinbase not counting as one before
Misplaced ==
    { i \in 3..Len(block) : block[i - 1].Hash >= block[i].Hash }

\* transactions[1..] are strictly ascending by hash
TailAscending == Misplaced = {}

\* Nothing makes checkBlockSanity return before it tests the first
\* misplaced transaction: the header is sane, the first transaction is the
\* only coinbase, and the transactions before the misplaced one are sane
OrderTestReached ==
    /\ env.headerErr = Nil
    /\ IsCoinBaseTx(block[1])
    /\ \A i \in 2..Len(block) : ~IsCoinBaseTx(block[i])
    /\ \A i \in 1..Len(block) :
          (\A k \in Misplaced : i < k)
              => CheckTransactionSanity(block[i], env.magneticAnomaly) = Nil

\* C19: with magneticAnomaly active a block whose transactions[1..] are not
\* strictly ascending by hash is refused, with InvalidTxOrder unless an
\* earlier test refuses it first; InvalidTxOrder is never returned for an
\* ascending block nor with magneticAnomaly inactive; the coinbase takes no
\* part in the order.
C19_CanonicalOrder ==
    BlockSanityDone =>
        /\ (env.magneticAnomaly /\ ~TailAscending) => ret # Nil
        /\ (env.magneticAnomaly /\ ~TailAscending /\ OrderTestReached)
               => ret = "ErrInvalidTxOrder"
        /\ ret = "ErrInvalidTxOrder" => (env.magneticAnomaly /\ ~TailAscending)

\* Two transactions after the coinbase with the same hash, refused for
\* their order
C19_Witness ==
    /\ BlockSanityDone
    /\ env.magneticAnomaly
    /\ Len(block) = 3
    /\ block[2].Hash = block[3].Hash
    /\ ret = "ErrInvalidTxOrder"

\* A coinbase whose hash is above the hashes of an ascending tail, accepted
C19_CoinbaseNotOrdered ==
    /\ BlockSanityDone
    /\ env.magneticAnomaly
    /\ Len(block) = 1 + MaxSanityTxs
    /\ block[1].Hash > block[2].Hash
    /\ TailAscending
    /\ ret = Nil

\* A descending tail accepted with magneticAnomaly inactive
C19_NoOrderWithoutFork ==
    /\ BlockSanityDone
    /\ ~env.magneticAnomaly
    /\ Len(block) = 3
    /\ block[2].Hash > block[3].Hash
    /\ ret = Nil

\* C27: checkBlockSanity ends with nil or a rule error for every block,
\* never with a crash; a block holding a transaction without inputs is
\* refused with NoTxInputs.
C27_NoCrashOnInputless ==
    BlockSanityDone =>
        /\ ret # "panic"
        /\ (env.headerErr = Nil /\ \E i \in 1..Len(block) : Len(block[i].TxIn) = 0)
               => ret = "ErrNoTxInputs"

\* A block whose first transaction has no inputs: the coinbase test reads
\* TxIn[0] of it
C27_InputlessFirstCrashes ==
    /\ BlockSanityDone
    /\ env.headerErr = Nil
    /\ Len(block) = 1
    /\ Len(block[1].TxIn) = 0
    /\ ret = "panic"

\* The same behind a coinbase, in the search for a second coinbase
C27_InputlessLaterCrashes ==
    /\ BlockSanityDone
    /\ env.headerErr = Nil
    /\ Len(block) = 2
    /\ IsCoinBaseTx(block[1])
    /\ Len(block[2].TxIn) = 0
    /\ ret = "panic"

----------------------------------------------------------------------------
(* checkBlockContext *)

\* A height test that only refuses heights above the wanted one
checkSerializedHeight_OnlyAbove(coinbaseTx, wantHeight) ==
    LET h == ExtractCoinbaseHeight(coinbaseTx) IN
    IF h.err # Nil THEN h.err
    ELSE IF h.height > wantHeight THEN "ErrBadCoinbaseHeight"
    ELSE Nil

checkSerializedHeight(coinbaseTx, wantHeight) ==
    LET h == ExtractCoinbaseHeight(coinbaseTx) IN
    IF h.err # Nil THEN h.err
    ELSE IF h.height # wantHeight THEN "ErrBadCoinbaseHeight"
    ELSE Nil

\* checkBlockContext. c holds what the calls outside the height test
\* return: headerErr from checkBlockHeaderContext, maxBlockSize from
\* MaxBlockSize, serializedSize from SerializeSize, deploymentErr from
\* deploymentState, unfinalized when IsFinalizedTransaction fails for some
\* transaction
checkBlockContext(transactions, prevHeight, fastAdd, c) ==
    IF c.headerErr # Nil THEN c.headerErr
    ELSE IF Len(transactions) > c.maxBlockSize THEN "ErrBlockTooBig"
    ELSE IF c.serializedSize > c.maxBlockSize THEN "ErrBlockTooBig"
    ELSE IF fastAdd THEN Nil
    ELSE IF c.deploymentErr # Nil THEN c.deploymentErr
    ELSE IF c.unfinalized THEN "ErrUnfinalizedTx"
    ELSE IF Len(transactions) = 0 THEN "panic"
    ELSE checkSerializedHeight(transactions[1], prevHeight + 1)

----------------------------------------------------------------------------
(* checkBlockContext applied to a block and its previous node *)

MaxPrevHeight == 17
EncodedHeight == 100

\* Signature scripts of a coinbase: none, small heights as opcodes, heights
\* behind a length byte of 1 to 5, a length byte with too few bytes behind
ContextScripts ==
    { <<>>, <<3, 1>> }
    \cup { HeightScript(h) : h \in {0, 1, 16} }
    \cup { <<1, h>> : h \in {5, EncodedHeight, EncodedHeight + 1} }
    \cup { <<2, EncodedHeight, 0>>, <<2, 1, 1>>, <<4, EncodedHeight + 1, 0, 0, 0>>,
           <<5, EncodedHeight + 1, 0, 0, 0, 1>>, <<4, 0, 0, 0, 128>> }

ContextPrevHeights ==
    (0..MaxPrevHeight) \cup {EncodedHeight - 1, EncodedHeight, 256}

ContextCalls ==
    [headerErr : {Nil, "ErrTimeTooOld"}, maxBlockSize : {0, 1000},
     serializedSize : {500, 1001}, deploymentErr : {Nil, "deployment error"},
     unfinalized : BOOLEAN, fastAdd : BOOLEAN]

ContextInit ==
    /\ op = "context"
    /\ pc = "call"
    /\ \E sc \in ContextScripts :
          block = <<TxOf(<<TxInOf(NullOutPoint, sc)>>, <<TxOutOf(5)>>)>>
    /\ height \in ContextPrevHeights
    /\ env \in ContextCalls
    /\ subsidy = 0
    /\ preBlock = <<>>
    /\ view = <<>>
    /\ view0 = view
    /\ stxos = <<>>
    /\ stxos0 = <<>>
    /\ ret = Nil

\* height holds prevNode.height
CallCheckBlockContext ==
    /\ op = "context"
    /\ pc = "call"
    /\ pc' = "done"
    /\ ret' = checkBlockContext(block, height, env.fastAdd, env)
    /\ UNCHANGED <<op, height, block, preBlock, subsidy, view, stxos, view0, stxos0, env>>

ContextNext == CallCheckBlockContext

SpecContext == ContextInit /\ [][ContextNext]_vars

ContextDone == op = "context" /\ pc = "done"

\* The block passes the checks made before the height test
EarlierContextPass ==
    /\ env.headerErr = Nil
    /\ Len(block) <= env.maxBlockSize
    /\ env.serializedSize <= env.maxBlockSize
    /\ env.deploymentErr = Nil
    /\ ~env.unfinalized

CoinbaseScript == block[1].TxIn[1].SignatureScript

\* The script holds a height: an opcode for 0..16, or a length byte with
\* that many bytes behind it
HeightEncoded ==
    /\ Len(CoinbaseScript) >= 1
    /\ \/ CoinbaseScript[1] = OP_0
       \/ CoinbaseScript[1] \in OP_1..OP_16
       \/ Len(CoinbaseScript) - 1 >= CoinbaseScript[1]

\* The height it holds: the bytes behind the length byte, least significant
\* first, as a signed number of 32 bits
EncodedValue ==
    IF CoinbaseScript[1] = OP_0 THEN 0
    ELSE IF CoinbaseScript[1] \in OP_1..OP_16 THEN CoinbaseScript[1] - OP_1 + 1
    ELSE LET n == CoinbaseScript[1]
             b(i) == IF i <= n THEN CoinbaseScript[1 + i] ELSE 0
             low == b(1) + 256 * b(2) + 256 * 256 * b(3)
         IN  IF b(4) < 128
             THEN low + 256 * 256 * 256 * b(4)
             ELSE low + 256 * 256 * 256 * (b(4) - 128) - 2147483647 - 1

\* C21: without BFFastAdd a block that passes the earlier checks gets
\* BadCoinbaseHeight exactly when the height its coinbase script holds is
\* not prevNode.height + 1; with BFFastAdd the height is not tested.
C21_CoinbaseHeight ==
    ContextDone =>
        /\ (~env.fastAdd /\ EarlierContextPass) =>
              (ret = "ErrBadCoinbaseHeight"
                   <=> (HeightEncoded /\ EncodedValue # height + 1))
        /\ (~env.fastAdd /\ EarlierContextPass /\ HeightEncoded
                /\ EncodedValue = height + 1) => ret = Nil
        /\ env.fastAdd => ret # "ErrBadCoinbaseHeight"

\* A coinbase holding 100 in a block at height 101
C21_Witness ==
    /\ ContextDone
    /\ ~env.fastAdd
    /\ EarlierContextPass
    /\ HeightEncoded
    /\ EncodedValue = EncodedHeight
    /\ height + 1 = EncodedHeight + 1
    /\ ret = "ErrBadCoinbaseHeight"

\* The same block passes with BFFastAdd
C21_FastAddSkips ==
    /\ ContextDone
    /\ env.fastAdd
    /\ HeightEncoded
    /\ EncodedValue = EncodedHeight
    /\ height + 1 = EncodedHeight + 1
    /\ ret = Nil

\* A coinbase holding the right height behind a length byte passes
C21_RightHeightPasses ==
    /\ ContextDone
    /\ ~env.fastAdd
    /\ Len(CoinbaseScript) > 1
    /\ CoinbaseScript[1] = 4
    /\ height + 1 = EncodedHeight + 1
    /\ ret = Nil

----------------------------------------------------------------------------
(* checkBlockHeaderSanity *)

\* Seconds
allowedFutureBlockTime == 10
MaxTimeOffsetSeconds == 2 * 60 * 60

\* checkBlockHeaderSanity. The header is its timestamp in seconds and
\* whether the timestamp has a fraction of a second; c holds powErr from
\* checkProofOfWork, now from time.Now, adjustedTime from the time source,
\* seqStart, the start time of the SEQ deployment, and what BlockByHash
\* returned for header.PrevBlock: byHashErr, and prevTimestamp, the
\* timestamp of the block returned, -1 for a nil block
checkBlockHeaderSanity(timestamp, subSecond, c) ==
    IF c.powErr # Nil THEN c.powErr
    ELSE IF subSecond THEN "ErrInvalidTime"
    ELSE IF timestamp > c.now + allowedFutureBlockTime THEN "ErrInvalidTime"
    ELSE IF /\ c.byHashErr # Nil
            /\ c.seqStart < timestamp
            /\ c.prevTimestamp # -1
            /\ c.prevTimestamp > timestamp
         THEN "ErrInvalidTime"
    ELSE IF timestamp > c.adjustedTime + MaxTimeOffsetSeconds THEN "ErrTimeTooNew"
    ELSE Nil

----------------------------------------------------------------------------
(* checkBlockHeaderSanity applied to a header *)

FirstTimestamp == 20
TimestampSpread == 2
LateStart == 1000
Timestamps == FirstTimestamp..(FirstTimestamp + TimestampSpread)

\* What BlockByHash can hand back: the block and no error, no block and an
\* error, and (should an implementation do so) a block with an error
HeaderCalls ==
    { [powErr |-> p, now |-> n, adjustedTime |-> n, seqStart |-> q,
       byHashErr |-> e, prevTimestamp |-> t] :
        p \in {Nil, "ErrHighHash"},
        n \in {FirstTimestamp - allowedFutureBlockTime - 1, FirstTimestamp + TimestampSpread},
        q \in {0, LateStart},
        e \in {Nil, "not in main chain"},
        t \in Timestamps \cup {-1} }

HeaderInit ==
    /\ op = "header"
    /\ pc = "call"
    /\ height \in Timestamps
    /\ env \in { [subSecond |-> b, c |-> c] : b \in BOOLEAN, c \in HeaderCalls }
    /\ block = <<>>
    /\ subsidy = 0
    /\ preBlock = <<>>
    /\ view = <<>>
    /\ view0 = view
    /\ stxos = <<>>
    /\ stxos0 = <<>>
    /\ ret = Nil

\* height holds header.Timestamp
CallCheckBlockHeaderSanity ==
    /\ op = "header"
    /\ pc = "call"
    /\ pc' = "done"
    /\ ret' = checkBlockHeaderSanity(height, env.subSecond, env.c)
    /\ UNCHANGED <<op, height, block, preBlock, subsidy, view, stxos, view0, stxos0, env>>

HeaderNext == CallCheckBlockHeaderSanity

SpecHeader == HeaderInit /\ [][HeaderNext]_vars

HeaderDone == op = "header" /\ pc = "done"

\* The SEQ deployment has started before the header's timestamp
SeqActive == env.c.seqStart < height

\* BlockByHash found the block header.PrevBlock names
PrevBlockKnown == env.c.byHashErr = Nil /\ env.c.prevTimestamp # -1

\* C22: with SEQ active and the previous block known, a header whose
\* timestamp is not above the previous block's is refused with InvalidTime.
C22_TimestampAbovePrevious ==
    (HeaderDone /\ SeqActive /\ PrevBlockKnown /\ env.c.powErr = Nil
        /\ height <= env.c.prevTimestamp) => ret = "ErrInvalidTime"

\* With SEQ active a header older than its known previous block is accepted
C22_OlderHeaderAccepted ==
    /\ HeaderDone
    /\ SeqActive
    /\ PrevBlockKnown
    /\ height < env.c.prevTimestamp
    /\ ret = Nil

\* The timestamps are only compared when BlockByHash returned an error
C22_ComparedOnlyOnError ==
    (HeaderDone /\ ~env.subSecond /\ env.c.powErr = Nil
        /\ height <= env.c.now + allowedFutureBlockTime /\ ret = "ErrInvalidTime")
        => env.c.byHashErr # Nil
====
